---- MODULE Spec2Model ----
(***************************************************************************)
(* A model of the federated-learning core of SuperPage:                    *)
(*   - DataProcessor.create_federated_splits   (training_service)          *)
(*   - SVSimulator.get_parameters/set_parameters/fit                       *)
(*   - run_federated_learning (the FedAvg loop)                            *)
(*   - save_model / load_model                 (training_service)          *)
(*   - ModelManager                            (prediction_service)        *)
(* Every subsystem has its own variables and its own specification; a      *)
(* specification leaves the variables of the other subsystems untouched.   *)
(*                                                                         *)
(* Numbers.  Parameter values are floats in the code.  The model computes  *)
(* over exact rationals (records [n, d], normalised), so statements about  *)
(* averages are statements of real arithmetic; float rounding is outside   *)
(* the model.  A tensor is a one-dimensional sequence of rationals and its *)
(* shape is its length; numpy broadcasting is modelled for length 1.       *)
(***************************************************************************)
EXTENDS Integers, Sequences, FiniteSets, TLC

VARIABLES
    \* ---- create_federated_splits
    sp_pc,            \* "start" | "loop" | "done" | "raised"
    sp_len,           \* len(X)
    sp_num,           \* num_clients
    sp_indices,       \* indices after np.random.shuffle
    sp_client_size,   \* len(X) // num_clients
    sp_i,             \* loop variable i
    sp_client_data,   \* client_data: one sequence of sample indices per shard
    sp_repeat,        \* whether this call repeats an earlier one with the same arguments
    sp_prev,          \* what that earlier call returned
    \* ---- one SVSimulator client
    cl_model,         \* the parameters of self.model, in parameters() order
    cl_op,            \* the last call: "none" | "set" | "train" | "get"
    cl_prev_op,       \* the call before it
    cl_arg,           \* the list this run hands to set_parameters
    cl_before,        \* the model's parameters when set_parameters was last called
    cl_raised,        \* whether the last call raised
    cl_got,           \* the list the last get_parameters call returned
    \* ---- run_federated_learning
    fed_pc,             \* "round_top" | "fit" | "aggregate" | "done" | "raised"
    fed_rounds,         \* rounds
    fed_round_num,      \* rounds completed so far
    fed_clients,        \* clients: per client [model, n]: its model's parameters
                        \* and len(train_loader.dataset)
    fed_global_model,   \* the parameters of global_model
    fed_global_params,  \* global_params
    fed_k,              \* how many clients of this round have returned from fit
    fed_client_updates, \* client_updates
    fed_client_sizes,   \* client_sizes
    fed_saved,          \* what save_model was handed: [model, scaler], or None
    fed_handed,         \* the lists handed to this round's fit calls so far
    fed_round_params,   \* global_params as it was at the top of this round
    fed_fit_calls,      \* per client: the fit calls made on it in this run
    fed_raised,         \* the step whose exception ended the run, or "none"
    fed_scaler,         \* data_processor.scaler once fitted, or None
    fed_files,          \* the files at the default model and scaler paths
    \* ---- save_model / load_model (training_service)
    st_model,         \* the model in memory: [config, params, training]
    st_scaler,        \* the fitted scaler in memory: [mean, scale]
    st_model_dir,     \* os.path.dirname(model_path); "" for a bare file name
    st_scaler_dir,    \* os.path.dirname(scaler_path)
    st_dirs,          \* the directories that exist (besides the working directory)
    st_files,         \* [model |-> ..., scaler |-> ...]: file contents or Missing
    st_op,            \* the last call: "none" | "save" | "load" | "train" | "probe" | "eval"
    st_raised,        \* whether the last save_model / load_model call raised
    st_loaded,        \* what the last successful load_model returned, or None
    st_fresh,         \* the model and the paths are as the last successful save left them
    st_probe,         \* the last probe: [saved, loaded] outputs, or None
    \* ---- ModelManager (prediction_service)
    mm_model,         \* self.model, or None
    mm_scaler,        \* self.scaler, or None
    mm_metadata,      \* self.metadata, or None
    mm_lock,          \* self._model_lock (an RLock): [owner, count]
    mm_thr,           \* per thread: [pc, args, id, before] of the call it is in
    mm_ret,           \* per thread: what its last finished call returned
    mm_loads,         \* the number of load_model calls made so far
    \* ---- ModelManager.__new__ / __init__ (the singleton)
    ct_cls,           \* the class and instance bookkeeping: _instance, _lock, _initialized
    ct_thr,           \* per thread: its position in a ModelManager() call
    \* ---- The prediction service (prediction_service/main.py)
    svc_state,        \* "created", "starting", "running" or "failed"
    svc_thr,          \* per thread: the request it is handling, [pc, features]
    svc_resp,         \* per thread: the HTTP status of its last response (0: none)
    \* ---- FundraisingPredictor.__init__
    ar_pc,            \* "idle", "layers", "output", "init_weights", "built" or "raised"
    ar_config,        \* the arguments: [input_size, hidden_sizes, dropout_rate]
    ar_prev_size,     \* prev_size
    ar_layers,        \* layers: the modules appended so far
    \* ---- SVSimulator.fit / evaluate on one client
    ft_model,         \* self.model's parameters
    ft_optimizer,     \* self.optimizer's state: what its steps so far started from
    ft_log,           \* the calls made so far, one record per call
    ft_data,          \* the sizes of the client's datasets: [train, val]
    \* ---- evaluate_model
    ev_losses,        \* the BCE loss of each validation sample, in loader order
    ev_batch_size,    \* the val_loader's batch_size
    ev_batches,       \* the batches consumed so far
    ev_total_loss,    \* total_loss
    ev_loss           \* metrics['loss'] once returned, or None

splitVars == <<sp_pc, sp_len, sp_num, sp_indices, sp_client_size, sp_i, sp_client_data,
               sp_repeat, sp_prev>>

clientVars == <<cl_model, cl_op, cl_prev_op, cl_arg, cl_before, cl_raised, cl_got>>

fedVars == <<fed_pc, fed_rounds, fed_round_num, fed_clients, fed_global_model,
             fed_global_params, fed_k, fed_client_updates, fed_client_sizes, fed_saved,
             fed_handed, fed_round_params, fed_fit_calls, fed_raised, fed_scaler,
             fed_files>>

storeVars == <<st_model, st_scaler, st_model_dir, st_scaler_dir, st_dirs, st_files,
               st_op, st_raised, st_loaded, st_fresh, st_probe>>

mmVars == <<mm_model, mm_scaler, mm_metadata, mm_lock, mm_thr, mm_ret, mm_loads>>

ctVars == <<ct_cls, ct_thr>>

svcVars == <<svc_state, svc_thr, svc_resp>>

archVars == <<ar_pc, ar_config, ar_prev_size, ar_layers>>

fitVars == <<ft_model, ft_optimizer, ft_log, ft_data>>

evalVars == <<ev_losses, ev_batch_size, ev_batches, ev_total_loss, ev_loss>>

vars == <<splitVars, clientVars, fedVars, storeVars, mmVars, ctVars, svcVars, archVars, fitVars,
          evalVars>>

\* What the actions of one subsystem leave alone.
notSplitVars == <<clientVars, fedVars, storeVars, mmVars, ctVars, svcVars, archVars, fitVars, evalVars>>

notClientVars == <<splitVars, fedVars, storeVars, mmVars, ctVars, svcVars, archVars, fitVars, evalVars>>

notFedVars == <<splitVars, clientVars, storeVars, mmVars, ctVars, svcVars, archVars, fitVars, evalVars>>

notStoreVars == <<splitVars, clientVars, fedVars, mmVars, ctVars, svcVars, archVars, fitVars, evalVars>>

notMmVars == <<splitVars, clientVars, fedVars, storeVars, ctVars, svcVars, archVars, fitVars, evalVars>>

notCtVars == <<splitVars, clientVars, fedVars, storeVars, svcVars, archVars, fitVars, evalVars>>

notSvcVars == <<splitVars, clientVars, fedVars, storeVars, ctVars, archVars, fitVars, evalVars>>

notArchVars == <<splitVars, clientVars, fedVars, storeVars, mmVars, ctVars, svcVars, fitVars, evalVars>>

notFitVars == <<splitVars, clientVars, fedVars, storeVars, mmVars, ctVars, svcVars, archVars, evalVars>>

notEvalVars == <<splitVars, clientVars, fedVars, storeVars, mmVars, ctVars, svcVars, archVars, fitVars>>

(***************************************************************************)
(* Bounds                                                                  *)
(***************************************************************************)
MaxLen == 4

\* The tensor shapes considered (a tensor's shape is its length).
TensorLens == {1, 2}

\* The most tensors a parameter list handed to set_parameters holds.
MaxTensors == 3

\* The values a parameter takes after initialisation or training.
TrainVals == {1, 2}

\* The most clients and the most rounds of a federated run.
MaxClients == 2

MaxRounds == 2

\* The sizes of a client's training set (len(train_loader.dataset)).
SampleCounts == {3, 7}

\* The most load_model calls of a run of the prediction service.
MaxLoads == 3

\* The most fit and evaluate calls made on one client.
MaxFits == 3

\* The most samples of a validation set and the largest batch size.
MaxVal == 4

MaxBatch == 3

\* The largest input_size a FundraisingPredictor is constructed with.
MaxWidth == 2

\* The most runs of the body of ModelManager.__init__ followed in a run.
MaxCtorRuns == 2

\* The threads calling into the ModelManager.
Threads == {"t1", "t2"}

(***************************************************************************)
(* Helpers                                                                 *)
(***************************************************************************)
Min(a, b) == IF a <= b THEN a ELSE b

Max(a, b) == IF a >= b THEN a ELSE b

\* Python's a // b (floor division) for b # 0.
FloorDiv(a, b) == IF b > 0 THEN a \div b ELSE (0 - a) \div (0 - b)

\* Python's seq[start:end] for 0 <= start, 0 <= end on a 0-based sequence:
\* both ends are clamped to the length, an empty range gives the empty list.
PySlice(seq, start, end) ==
    LET s == Min(start, Len(seq))
        e == Min(end, Len(seq))
    IN  IF e <= s THEN << >> ELSE SubSeq(seq, s + 1, e)

\* All orderings of the indices 0 .. n-1 (the outcomes of np.random.shuffle).
Shuffles(n) ==
    {p \in [1..n -> 0..(n - 1)] : \A a, b \in 1..n : a # b => p[a] # p[b]}

RECURSIVE SumSeq(_)
SumSeq(s) == IF s = << >> THEN 0 ELSE Head(s) + SumSeq(Tail(s))

Range(s) == {s[k] : k \in 1..Len(s)}

\* No file at a path; no object held.
Missing == [kind |-> "missing"]

None == [kind |-> "none"]

(***************************************************************************)
(* DataProcessor.create_federated_splits                                   *)
(***************************************************************************)
SplitInit ==
    /\ sp_pc = "start"
    /\ sp_len \in 0..MaxLen
    /\ sp_num \in (0 - 1)..(MaxLen + 1)
    /\ sp_indices = << >>
    /\ sp_client_size = 0
    /\ sp_i = 0
    /\ sp_client_data = << >>
    /\ sp_repeat = FALSE
    /\ sp_prev = << >>

SplitIdle ==
    /\ sp_pc = "idle"
    /\ sp_len = 0
    /\ sp_num = 0
    /\ sp_indices = << >>
    /\ sp_client_size = 0
    /\ sp_i = 0
    /\ sp_client_data = << >>
    /\ sp_repeat = FALSE
    /\ sp_prev = << >>

\* lines 158-164: client_data = [], arange, shuffle, client_size = len // num.
\* Division by zero raises ZeroDivisionError.
SplitShuffle ==
    /\ sp_pc = "start"
    /\ \E p \in Shuffles(sp_len) :
          /\ sp_indices' = p
          /\ IF sp_num = 0
             THEN /\ sp_pc' = "raised"
                  /\ sp_client_size' = sp_client_size
             ELSE /\ sp_pc' = "loop"
                  /\ sp_client_size' = FloorDiv(sp_len, sp_num)
    /\ UNCHANGED <<sp_len, sp_num, sp_i, sp_client_data, sp_repeat, sp_prev, notSplitVars>>

\* Mutant: the start index forgets the shard size (start_idx = i).
ShardStart_Unscaled(i) == i

\* The start index of shard i (line 167).
ShardStart(i) == i * sp_client_size

\* Mutant: the last shard does not absorb the remainder.
ShardEnd_NoRemainder(i) == (i + 1) * sp_client_size

\* The end index of shard i (lines 168-171).
ShardEnd(i) ==
    IF i = sp_num - 1 THEN sp_len ELSE (i + 1) * sp_client_size

\* lines 166-180: one iteration of `for i in range(num_clients)`.
SplitIter ==
    /\ sp_pc = "loop"
    /\ sp_i < sp_num
    /\ LET start_idx == ShardStart(sp_i)
           end_idx == ShardEnd(sp_i)
       IN  sp_client_data' = Append(sp_client_data, PySlice(sp_indices, start_idx, end_idx))
    /\ sp_i' = sp_i + 1
    /\ UNCHANGED <<sp_pc, sp_len, sp_num, sp_indices, sp_client_size, sp_repeat, sp_prev,
                   notSplitVars>>

\* line 182: return client_data (range(num_clients) is exhausted, or empty).
SplitReturn ==
    /\ sp_pc = "loop"
    /\ sp_i >= sp_num
    /\ sp_pc' = "done"
    /\ UNCHANGED <<sp_len, sp_num, sp_indices, sp_client_size, sp_i, sp_client_data,
                   sp_repeat, sp_prev, notSplitVars>>

\* The caller repeats the call with the same X, y and num_clients; nothing
\* between the two calls touches numpy's global random state.
SplitCallAgain ==
    /\ sp_pc = "done"
    /\ ~sp_repeat
    /\ sp_repeat' = TRUE
    /\ sp_prev' = sp_client_data
    /\ sp_pc' = "start"
    /\ sp_indices' = << >>
    /\ sp_client_size' = 0
    /\ sp_i' = 0
    /\ sp_client_data' = << >>
    /\ UNCHANGED <<sp_len, sp_num, notSplitVars>>

SplitNext == SplitShuffle \/ SplitIter \/ SplitReturn \/ SplitCallAgain

(***************************************************************************)
(* Rationals: [n |-> numerator, d |-> denominator > 0], in lowest terms.   *)
(***************************************************************************)
Abs(a) == IF a < 0 THEN 0 - a ELSE a

RECURSIVE Gcd(_, _)
Gcd(a, b) == IF b = 0 THEN a ELSE Gcd(b, a % b)

RatNorm(n, d) ==
    LET g == Gcd(Abs(n), d)
    IN  [n |-> n \div g, d |-> d \div g]

Rat(k) == [n |-> k, d |-> 1]

RatAdd(x, y) == RatNorm(x.n * y.d + y.n * x.d, x.d * y.d)

RatMul(x, y) == RatNorm(x.n * y.n, x.d * y.d)

\* a / b for integers a and b > 0 (Python's true division).
RatDiv(a, b) == RatNorm(a, b)

(***************************************************************************)
(* Tensors and parameter lists                                             *)
(***************************************************************************)
\* All tensors of a length in TensorLens over TrainVals.
Tensors ==
    UNION {[1..l -> {Rat(v) : v \in TrainVals}] : l \in TensorLens}

\* All parameter lists of up to MaxTensors tensors.
ParamLists == UNION {[1..c -> Tensors] : c \in 0..MaxTensors}

\* The shape of the parameters() of FundraisingPredictor(): a weight and a bias.
DefaultShape == <<1, 1>>

\* The parameter lists of a given shape (a sequence of tensor lengths).
ParamsOfShape(shape) ==
    {p \in [1..Len(shape) -> Tensors] : \A k \in 1..Len(shape) : Len(p[k]) = shape[k]}

ShapeOf(params) == [k \in 1..Len(params) |-> Len(params[k])]

SameStructure(p, q) == ShapeOf(p) = ShapeOf(q)

\* torch.tensor(new_param, dtype=param.dtype, device=param.device): a fresh
\* float32 tensor of new_param's own shape.  The arrays of this protocol are
\* float32 (get_parameters, np.zeros_like of one), so the cast keeps each value.
ToTensor(new_param) == [k \in 1..Len(new_param) |-> new_param[k]]

\* param.cpu().detach().numpy(): the array of a parameter's values.
ToNumpy(param) == [k \in 1..Len(param) |-> param[k]]

(***************************************************************************)
(* SVSimulator.get_parameters / set_parameters                             *)
(***************************************************************************)
GetParameters(model) == [k \in 1..Len(model) |-> ToNumpy(model[k])]

\* Mutant: the zip is off by one and never assigns the last parameter.
SetParameters_SkipLast(model, parameters) ==
    [k \in 1..Len(model) |->
        IF k < Len(model) /\ k <= Len(parameters) THEN ToTensor(parameters[k]) ELSE model[k]]

\* lines 335-337: zip stops at the shorter list; each zipped parameter's data
\* is replaced by a tensor of the given array, whatever its shape.
SetParameters(model, parameters) ==
    [k \in 1..Len(model) |->
        IF k <= Len(parameters) THEN ToTensor(parameters[k]) ELSE model[k]]

ClientInit ==
    /\ cl_model \in ParamsOfShape(DefaultShape)
    /\ cl_op = "none"
    /\ cl_prev_op = "none"
    /\ cl_arg \in ParamLists
    /\ cl_before = << >>
    /\ cl_raised = FALSE
    /\ cl_got = << >>

ClientIdle ==
    /\ cl_model = << >>
    /\ cl_op = "idle"
    /\ cl_prev_op = "idle"
    /\ cl_arg = << >>
    /\ cl_before = << >>
    /\ cl_raised = FALSE
    /\ cl_got = << >>

\* client.set_parameters(cl_arg).
ClSetParameters ==
    /\ cl_model' = SetParameters(cl_model, cl_arg)
    /\ cl_before' = cl_model
    /\ cl_raised' = FALSE
    /\ cl_prev_op' = cl_op
    /\ cl_op' = "set"
    /\ cl_got' = << >>
    /\ UNCHANGED <<cl_arg, notClientVars>>

\* client.get_parameters({}).
ClGetParameters ==
    /\ cl_got' = GetParameters(cl_model)
    /\ cl_raised' = FALSE
    /\ cl_prev_op' = cl_op
    /\ cl_op' = "get"
    /\ UNCHANGED <<cl_model, cl_arg, cl_before, notClientVars>>

\* train_model on the client's model (lines 237-256): the optimizer steps
\* change parameter values in place and keep every shape.
ClTrain ==
    /\ cl_model' \in ParamsOfShape(ShapeOf(cl_model))
    /\ cl_model' # cl_model
    /\ cl_raised' = FALSE
    /\ cl_prev_op' = cl_op
    /\ cl_op' = "train"
    /\ cl_got' = << >>
    /\ cl_before' = << >>
    /\ UNCHANGED <<cl_arg, notClientVars>>

ClientNext == ClSetParameters \/ ClGetParameters \/ ClTrain

(***************************************************************************)
(* The artifact files (lines 412-424, 448-464)                             *)
(***************************************************************************)
\* torch.save of the checkpoint dict, and torch.load of such a file.
TorchSave(state_dict, model_config) ==
    [kind |-> "checkpoint", model_state_dict |-> state_dict, model_config |-> model_config]

\* pickle.dump / pickle.load of a StandardScaler.
PickleDump(scaler) == [kind |-> "pickle", mean |-> scaler.mean, scale |-> scaler.scale]

PickleLoad(bytes) == [mean |-> bytes.mean, scale |-> bytes.scale]

\* An artifact left at the paths by an earlier run.
OldModelFile ==
    TorchSave(<<<<Rat(1)>>, <<Rat(1)>>>>,
              [input_size |-> 1, hidden_sizes |-> << >>, dropout_rate |-> 20])

OldScalerFile == PickleDump([mean |-> 0, scale |-> 1])

(***************************************************************************)
(* run_federated_learning: the FedAvg loop (lines 515-560)                 *)
(***************************************************************************)
\* numpy broadcasting of `weighted_sum += weight * arr`: arr must have the
\* shape of weighted_sum, or length 1 (then its element is used everywhere).
Broadcastable(arr, target) == Len(arr) = Len(target) \/ Len(arr) = 1

Broadcast(arr, len) == [e \in 1..len |-> IF Len(arr) = 1 THEN arr[1] ELSE arr[e]]

\* np.zeros_like(t)
ZerosLike(t) == [e \in 1..Len(t) |-> Rat(0)]

\* Mutant: every client weighs the same (1 / number of clients).
ClientWeight_Unweighted(client_sizes, client_idx) == RatDiv(1, Len(client_sizes))

\* line 543: weight = client_sizes[client_idx] / total_examples
ClientWeight(client_sizes, client_idx) ==
    RatDiv(client_sizes[client_idx], SumSeq(client_sizes))

\* lines 540-544: weighted_sum after the first c clients have been added.
RECURSIVE WeightedSum(_, _, _, _, _)
WeightedSum(global_params, client_updates, client_sizes, param_idx, c) ==
    IF c = 0
    THEN ZerosLike(global_params[param_idx])
    ELSE LET prev == WeightedSum(global_params, client_updates, client_sizes, param_idx, c - 1)
             weight == ClientWeight(client_sizes, c)
             arr == Broadcast(client_updates[c][param_idx], Len(prev))
         IN  [e \in 1..Len(prev) |-> RatAdd(prev[e], RatMul(weight, arr[e]))]

\* Whether lines 536-546 raise: a client list too short for param_idx
\* (IndexError), an array that does not broadcast into weighted_sum
\* (ValueError), or a zero total with a client present (ZeroDivisionError).
AggregationRaises(global_params, client_updates, client_sizes) ==
    /\ Len(global_params) > 0
    /\ Len(client_updates) > 0
    /\ \/ SumSeq(client_sizes) = 0
       \/ \E param_idx \in 1..Len(global_params), c \in 1..Len(client_updates) :
             \/ Len(client_updates[c]) < param_idx
             \/ ~Broadcastable(client_updates[c][param_idx], global_params[param_idx])

\* lines 536-546: aggregated_params (when nothing raises).
Aggregate(global_params, client_updates, client_sizes) ==
    [param_idx \in 1..Len(global_params) |->
        WeightedSum(global_params, client_updates, client_sizes, param_idx,
                    Len(client_updates))]

\* What a client's model may hold when it is built (line 504: Xavier weights).
NewModels(shape) == ParamsOfShape(shape)

\* The client lists of a run: n clients, each with a model of one of `shapes`
\* and a training set of one of the SampleCounts sizes.
ClientLists(n, shapes) ==
    [1..n -> UNION {[model : NewModels(sh), n : SampleCounts] : sh \in shapes}]

\* What StandardScaler.fit_transform leaves in data_processor.scaler.
FittedScaler == [mean |-> 1, scale |-> 1]

\* fed_clients holds the clients lines 497-510 build, fixed by the dataset and
\* the arguments; the loop uses them from "round_top" on.
FedInitWith(clientLists) ==
    /\ fed_pc = "load"
    /\ fed_scaler = None
    /\ fed_files = [model |-> OldModelFile, scaler |-> OldScalerFile]
    /\ fed_rounds \in 0..MaxRounds
    /\ fed_round_num = 0
    /\ fed_clients \in clientLists
    /\ fed_global_model \in NewModels(DefaultShape)
    /\ fed_global_params = GetParameters(fed_global_model)
    /\ fed_k = 0
    /\ fed_client_updates = << >>
    /\ fed_client_sizes = << >>
    /\ fed_saved = None
    /\ fed_handed = << >>
    /\ fed_round_params = fed_global_params
    /\ fed_fit_calls = [c \in 1..Len(fed_clients) |-> 0]
    /\ fed_raised = "none"

\* lines 497-517 as written: every client and the global model are built by
\* FundraisingPredictor() with the default architecture.
FedInit ==
    FedInitWith(UNION {ClientLists(n, {DefaultShape}) : n \in 0..MaxClients})

\* A client list in which one client was built with another architecture (the
\* misconfigured client of the failure policy): one parameter tensor less, or
\* one more, than the global model.  With one tensor more, as for
\* FundraisingPredictor(hidden_sizes=[64, 32, 16, 1]) against the default, the
\* first tensors have the global model's shapes and fit runs as usual.
OtherShapes == {SubSeq(DefaultShape, 1, Len(DefaultShape) - 1), Append(DefaultShape, 1)}

MisconfiguredClientLists ==
    UNION {{cl \in ClientLists(n, {DefaultShape} \cup OtherShapes) :
               Cardinality({c \in 1..n : ShapeOf(cl[c].model) # DefaultShape}) = 1}
           : n \in 1..MaxClients}

FedInitAny == FedInitWith(MisconfiguredClientLists)

FedIdle ==
    /\ fed_pc = "idle"
    /\ fed_scaler = None
    /\ fed_files = [model |-> Missing, scaler |-> Missing]
    /\ fed_rounds = 0
    /\ fed_round_num = 0
    /\ fed_clients = << >>
    /\ fed_global_model = << >>
    /\ fed_global_params = << >>
    /\ fed_k = 0
    /\ fed_client_updates = << >>
    /\ fed_client_sizes = << >>
    /\ fed_saved = None
    /\ fed_handed = << >>
    /\ fed_round_params = << >>
    /\ fed_fit_calls = << >>
    /\ fed_raised = "none"

\* Mutant: the exception is logged and the run goes on to its next round or
\* to save_model.
FedRaise_LoggedOnly(stage) ==
    /\ fed_pc' = "round_top"
    /\ fed_raised' = stage

\* An exception leaves run_federated_learning (nothing in it catches one).
FedRaise(stage) ==
    /\ fed_pc' = "raised"
    /\ fed_raised' = stage

\* line 491: load_and_preprocess_data reads the dataset and fits the scaler.
FedLoad ==
    /\ fed_pc = "load"
    /\ fed_scaler' = FittedScaler
    /\ fed_pc' = "split"
    /\ UNCHANGED <<fed_rounds, fed_round_num, fed_clients, fed_global_model,
                   fed_global_params, fed_k, fed_client_updates, fed_client_sizes,
                   fed_saved, fed_handed, fed_round_params, fed_fit_calls,
                   fed_raised, fed_files, notFedVars>>

\* line 494: create_federated_splits.
FedSplit ==
    /\ fed_pc = "split"
    /\ fed_pc' = "clients"
    /\ UNCHANGED <<fed_rounds, fed_round_num, fed_clients, fed_global_model,
                   fed_global_params, fed_k, fed_client_updates, fed_client_sizes,
                   fed_saved, fed_handed, fed_round_params, fed_fit_calls,
                   fed_raised, fed_scaler, fed_files, notFedVars>>

\* lines 497-517: the clients and the global model are built.
FedCreateClients ==
    /\ fed_pc = "clients"
    /\ fed_pc' = "round_top"
    /\ UNCHANGED <<fed_rounds, fed_round_num, fed_clients, fed_global_model,
                   fed_global_params, fed_k, fed_client_updates, fed_client_sizes,
                   fed_saved, fed_handed, fed_round_params, fed_fit_calls,
                   fed_raised, fed_scaler, fed_files, notFedVars>>

\* lines 519-524: the top of a round; the update lists start empty.
FedRoundStart ==
    /\ fed_pc = "round_top"
    /\ fed_round_num < fed_rounds
    /\ fed_pc' = "fit"
    /\ fed_k' = 0
    /\ fed_client_updates' = << >>
    /\ fed_client_sizes' = << >>
    /\ fed_handed' = << >>
    /\ fed_round_params' = fed_global_params
    /\ UNCHANGED <<fed_rounds, fed_round_num, fed_clients, fed_global_model,
                   fed_global_params, fed_saved, fed_fit_calls, fed_raised,
                   fed_scaler, fed_files, notFedVars>>

\* Mutant: a client is handed the latest update of its round, if there is one.
FitArgument_LatestUpdate(global_params, client_updates) ==
    IF Len(client_updates) > 0 THEN client_updates[Len(client_updates)] ELSE global_params

\* line 528: client.fit(global_params, {}); fit copies the arrays into its
\* model (torch.tensor) and never writes to them.
FitArgument(global_params, client_updates) == global_params

\* One more fit call on a client.
FitCallsAfter(fit_calls, client) == [fit_calls EXCEPT ![client] = @ + 1]

\* lines 526-533 with SVSimulator.fit (lines 351-372): the next client adopts
\* global_params, trains one epoch (any values, same shapes) and returns its
\* parameters and its training-set size.
FedFit ==
    /\ fed_pc = "fit"
    /\ fed_k < Len(fed_clients)
    /\ LET client == fed_clients[fed_k + 1]
           parameters == FitArgument(fed_global_params, fed_client_updates)
           adopted == SetParameters(client.model, parameters)
       IN  /\ \E trained \in ParamsOfShape(ShapeOf(adopted)) :
                 /\ fed_clients' = [fed_clients EXCEPT ![fed_k + 1].model = trained]
                 /\ fed_client_updates' = Append(fed_client_updates, GetParameters(trained))
                 /\ fed_client_sizes' = Append(fed_client_sizes, client.n)
           /\ fed_handed' = Append(fed_handed, parameters)
    /\ fed_fit_calls' = FitCallsAfter(fed_fit_calls, fed_k + 1)
    /\ fed_k' = fed_k + 1
    /\ UNCHANGED <<fed_pc, fed_rounds, fed_round_num, fed_global_model,
                   fed_global_params, fed_saved, fed_round_params, fed_raised,
                   fed_scaler, fed_files, notFedVars>>

\* lines 535-556 once every client has returned: aggregate, replace
\* global_params and set the global model's parameters; or raise.
FedAggregate ==
    /\ fed_pc = "fit"
    /\ fed_k = Len(fed_clients)
    /\ IF AggregationRaises(fed_global_params, fed_client_updates, fed_client_sizes)
       THEN /\ FedRaise("aggregate")
            /\ UNCHANGED <<fed_round_num, fed_global_model, fed_global_params>>
       ELSE LET aggregated_params ==
                    Aggregate(fed_global_params, fed_client_updates, fed_client_sizes)
            IN  /\ fed_global_params' = aggregated_params
                /\ fed_global_model' = SetParameters(fed_global_model, aggregated_params)
                /\ fed_round_num' = fed_round_num + 1
                /\ fed_pc' = "round_top"
                /\ UNCHANGED fed_raised
    /\ UNCHANGED <<fed_rounds, fed_clients, fed_k, fed_client_updates,
                   fed_client_sizes, fed_saved, fed_handed, fed_round_params,
                   fed_fit_calls, fed_scaler, fed_files, notFedVars>>

\* The architecture of FundraisingPredictor() as modelled by DefaultShape.
DefaultConfig == [input_size |-> 1, hidden_sizes |-> << >>, dropout_rate |-> 20]

\* Mutant: the run saves before its last round.
SaveDue_OneRoundEarly(round_num, rounds) == round_num = rounds \/ round_num + 1 = rounds

\* line 519: range(rounds) is exhausted, so line 559 is reached.
SaveDue(round_num, rounds) == round_num >= rounds

\* torch.save's write of the global model at line 412.
SavedModelFile == TorchSave(GetParameters(fed_global_model), DefaultConfig)

\* lines 558-560: save_model(global_model, data_processor.scaler) with the
\* default paths (lines 408-432): the model file is written, then the scaler
\* file.
FedSave ==
    /\ fed_pc = "round_top"
    /\ SaveDue(fed_round_num, fed_rounds)
    /\ fed_saved' = [model |-> fed_global_model, scaler |-> fed_scaler]
    /\ fed_files' = [model |-> SavedModelFile, scaler |-> PickleDump(fed_scaler)]
    /\ fed_pc' = "done"
    /\ UNCHANGED <<fed_rounds, fed_round_num, fed_clients, fed_global_model,
                   fed_global_params, fed_k, fed_client_updates, fed_client_sizes,
                   fed_handed, fed_round_params, fed_fit_calls, fed_raised,
                   fed_scaler, notFedVars>>

FedNext ==
    \/ FedLoad \/ FedSplit \/ FedCreateClients \/ FedRoundStart
    \/ FedFit \/ FedAggregate \/ FedSave

\* The steps before the loop raise: the dataset cannot be read (line 491),
\* the partitioning fails (line 494), a client's loaders cannot be built
\* (line 500).
FedSetupRaise ==
    /\ fed_pc \in {"load", "split", "clients"}
    /\ FedRaise(fed_pc)
    /\ UNCHANGED <<fed_rounds, fed_round_num, fed_clients, fed_global_model,
                   fed_global_params, fed_k, fed_client_updates, fed_client_sizes,
                   fed_saved, fed_handed, fed_round_params, fed_fit_calls,
                   fed_scaler, fed_files, notFedVars>>

\* line 528 when the client's fit raises (train_model or evaluate_model fails).
FedFitRaise ==
    /\ fed_pc = "fit"
    /\ fed_k < Len(fed_clients)
    /\ FedRaise("fit")
    /\ fed_fit_calls' = FitCallsAfter(fed_fit_calls, fed_k + 1)
    /\ UNCHANGED <<fed_rounds, fed_round_num, fed_clients, fed_global_model,
                   fed_global_params, fed_k, fed_client_updates, fed_client_sizes,
                   fed_saved, fed_handed, fed_round_params, fed_scaler, fed_files,
                   notFedVars>>

\* save_model's second write fails (lines 423-424): the model file is already
\* written, the exception is logged and re-raised (lines 430-432).
FedSaveRaise ==
    /\ fed_pc = "round_top"
    /\ SaveDue(fed_round_num, fed_rounds)
    /\ fed_saved' = [model |-> fed_global_model, scaler |-> fed_scaler]
    /\ fed_files' = [fed_files EXCEPT !.model = SavedModelFile]
    /\ FedRaise("save")
    /\ UNCHANGED <<fed_rounds, fed_round_num, fed_clients, fed_global_model,
                   fed_global_params, fed_k, fed_client_updates, fed_client_sizes,
                   fed_handed, fed_round_params, fed_fit_calls, fed_scaler,
                   notFedVars>>

\* A run in which any step that can fail may fail.
FedFaultyNext == FedNext \/ FedSetupRaise \/ FedFitRaise \/ FedSaveRaise

(***************************************************************************)
(* FundraisingPredictor: architecture and forward pass                     *)
(***************************************************************************)
\* The architectures considered: input_size, hidden_sizes, dropout_rate (in
\* percent, so that 20 stands for 0.2).
Configs ==
    [input_size : {1}, hidden_sizes : {<< >>, <<1>>}, dropout_rate : {0, 20}]

\* The widths of the Linear layers' inputs and outputs (lines 74-85).
LayerWidths(config) == <<config.input_size>> \o config.hidden_sizes \o <<1>>

NumLayers(config) == Len(config.hidden_sizes) + 1

\* The shapes of parameters(): per Linear layer its weight (out * in elements)
\* and its bias (out elements).
ArchShape(config) ==
    [k \in 1..(2 * NumLayers(config)) |->
        LET l == (k + 1) \div 2
            w == LayerWidths(config)
        IN  IF k % 2 = 1 THEN w[l] * w[l + 1] ELSE w[l + 1]]

RECURSIVE RatSum(_)
RatSum(s) == IF s = << >> THEN Rat(0) ELSE RatAdd(Head(s), RatSum(Tail(s)))

Relu(x) == IF x.n < 0 THEN Rat(0) ELSE x

\* nn.Dropout(p) on one unit: the identity in eval mode or with p = 0; in
\* training mode the unit is zeroed or scaled by 1 / (1 - p).
Dropout(x, rate, training, keep) ==
    IF ~training \/ rate = 0 THEN x
    ELSE IF keep THEN RatMul(x, RatDiv(100, 100 - rate)) ELSE Rat(0)

\* The activations after layer l (lines 76-86, 102); masks[l][j] says whether
\* dropout keeps unit j of hidden layer l.  The final Sigmoid is one-to-one,
\* so the value before it stands for the output.
RECURSIVE Activations(_, _, _, _)
Activations(model, x, masks, l) ==
    IF l = 0 THEN x
    ELSE LET inp == Activations(model, x, masks, l - 1)
             w == LayerWidths(model.config)
             weight == model.params[2 * l - 1]
             bias == model.params[2 * l]
             z == [j \in 1..w[l + 1] |->
                     RatAdd(RatSum([i \in 1..w[l] |->
                                       RatMul(weight[(j - 1) * w[l] + i], inp[i])]),
                            bias[j])]
         IN  IF l = NumLayers(model.config) THEN z
             ELSE [j \in 1..w[l + 1] |->
                     Dropout(Relu(z[j]), model.config.dropout_rate, model.training,
                             masks[l][j])]

Forward(model, x, masks) == Activations(model, x, masks, NumLayers(model.config))[1]

\* The dropout masks a forward pass may draw.
Masks(config) ==
    [1..Len(config.hidden_sizes) -> UNION {[1..h -> BOOLEAN] : h \in Range(config.hidden_sizes)}]

ProbeInputs(config) == [1..config.input_size -> {Rat(1), Rat(2)}]

\* Whether the forward pass of a model draws no random mask.
Deterministic(model) ==
    ~model.training \/ model.config.dropout_rate = 0 \/ model.config.hidden_sizes = << >>

(***************************************************************************)
(* save_model / load_model (training_service, lines 396-471)               *)
(***************************************************************************)

\* model.state_dict(): the parameter tensors, keyed in parameters() order.
StateDict(model) == [k \in 1..Len(model.params) |-> ToNumpy(model.params[k])]

\* model.load_state_dict(sd) is strict: it raises unless sd has exactly the
\* model's keys with the model's shapes.
LoadStateDictRaises(config, sd) == ShapeOf(sd) # ArchShape(config)

\* Mutant: the restored model keeps its freshly initialised last tensor.
RestoredParams_DropLast(fresh, sd) ==
    [k \in 1..Len(fresh) |-> IF k < Len(fresh) THEN ToTensor(sd[k]) ELSE fresh[k]]

\* load_state_dict copies every tensor of sd into the new model.
RestoredParams(fresh, sd) == [k \in 1..Len(fresh) |-> ToTensor(sd[k])]

DirExists(dir) == dir = "" \/ dir \in st_dirs

StoreInit ==
    /\ \E config \in Configs :
          st_model \in [config : {config}, params : ParamsOfShape(ArchShape(config)),
                        training : {TRUE}]
    /\ st_scaler = [mean |-> 1, scale |-> 1]
    /\ st_model_dir \in {"", "models"}
    /\ st_scaler_dir \in {"models", "out"}
    /\ st_dirs \in SUBSET {"models", "out"}
    /\ st_files \in {[model |-> Missing, scaler |-> Missing],
                     [model |-> OldModelFile, scaler |-> OldScalerFile]}
    /\ DirExists(st_model_dir) \/ st_files.model = Missing
    /\ DirExists(st_scaler_dir) \/ st_files.scaler = Missing
    /\ st_op = "none"
    /\ st_raised = FALSE
    /\ st_loaded = None
    /\ st_fresh = FALSE
    /\ st_probe = None

StoreIdle ==
    /\ st_model = None
    /\ st_scaler = None
    /\ st_model_dir = ""
    /\ st_scaler_dir = ""
    /\ st_dirs = {}
    /\ st_files = [model |-> Missing, scaler |-> Missing]
    /\ st_op = "idle"
    /\ st_raised = FALSE
    /\ st_loaded = None
    /\ st_fresh = FALSE
    /\ st_probe = None

\* save_model(model, scaler, model_path, scaler_path), lines 408-432.
\* os.makedirs(dirname(model_path), exist_ok=True) raises for an empty dirname;
\* torch.save writes the model file; open(scaler_path, 'wb') raises when the
\* scaler's directory does not exist.
StSave ==
    /\ st_op' = "save"
    /\ st_probe' = None
    /\ st_loaded' = None
    /\ IF st_model_dir = ""
       THEN /\ st_raised' = TRUE
            /\ st_fresh' = FALSE
            /\ UNCHANGED <<st_dirs, st_files>>
       ELSE /\ st_dirs' = st_dirs \cup {st_model_dir}
            /\ LET written == TorchSave(StateDict(st_model), st_model.config)
               IN  IF st_scaler_dir = "" \/ st_scaler_dir \in st_dirs'
                   THEN /\ st_files' = [model |-> written, scaler |-> PickleDump(st_scaler)]
                        /\ st_raised' = FALSE
                        /\ st_fresh' = TRUE
                   ELSE /\ st_files' = [st_files EXCEPT !.model = written]
                        /\ st_raised' = TRUE
                        /\ st_fresh' = FALSE
    /\ UNCHANGED <<st_model, st_scaler, st_model_dir, st_scaler_dir, notStoreVars>>

\* load_model(model_path, scaler_path), lines 447-471: any failure is re-raised.
\* The model it builds is a new nn.Module, hence in training mode.
StLoad ==
    /\ st_op' = "load"
    /\ st_probe' = None
    /\ IF \/ st_files.model = Missing
          \/ st_files.scaler = Missing
          \/ LoadStateDictRaises(st_files.model.model_config, st_files.model.model_state_dict)
       THEN /\ st_raised' = TRUE
            /\ st_loaded' = None
       ELSE /\ st_raised' = FALSE
            /\ \E fresh \in NewModels(ArchShape(st_files.model.model_config)) :
                  st_loaded' =
                      [model |-> [config |-> st_files.model.model_config,
                                  params |-> RestoredParams(fresh, st_files.model.model_state_dict),
                                  training |-> TRUE],
                       scaler |-> PickleLoad(st_files.scaler)]
    /\ UNCHANGED <<st_model, st_scaler, st_model_dir, st_scaler_dir, st_dirs, st_files,
                   st_fresh, notStoreVars>>

\* Further training of the model in memory: its values change, the files do not.
StTrain ==
    /\ st_op # "train"
    /\ \E params \in ParamsOfShape(ArchShape(st_model.config)) :
          /\ params # st_model.params
          /\ st_model' = [st_model EXCEPT !.params = params, !.training = TRUE]
    /\ st_op' = "train"
    /\ st_fresh' = FALSE
    /\ st_raised' = FALSE
    /\ st_probe' = None
    /\ st_loaded' = None
    /\ UNCHANGED <<st_scaler, st_model_dir, st_scaler_dir, st_dirs, st_files, notStoreVars>>

\* model.eval() on the model in memory and on the loaded one.
StEval ==
    /\ st_loaded # None
    /\ st_model' = [st_model EXCEPT !.training = FALSE]
    /\ st_loaded' = [st_loaded EXCEPT !.model.training = FALSE]
    /\ st_op' = "eval"
    /\ st_raised' = FALSE
    /\ st_probe' = None
    /\ UNCHANGED <<st_scaler, st_model_dir, st_scaler_dir, st_dirs, st_files, st_fresh,
                   notStoreVars>>

\* One probe input through the model in memory and through the loaded one;
\* each forward pass draws its own dropout masks.
StProbe ==
    /\ st_loaded # None
    /\ st_loaded.model.config.input_size = st_model.config.input_size
    /\ \E x \in ProbeInputs(st_model.config) :
       \E m1 \in Masks(st_model.config), m2 \in Masks(st_loaded.model.config) :
          st_probe' = [saved |-> Forward(st_model, x, m1),
                       loaded |-> Forward(st_loaded.model, x, m2)]
    /\ st_op' = "probe"
    /\ st_raised' = FALSE
    /\ UNCHANGED <<st_model, st_scaler, st_model_dir, st_scaler_dir, st_dirs, st_files,
                   st_loaded, st_fresh, notStoreVars>>

StoreNext == StSave \/ StLoad \/ StTrain \/ StEval \/ StProbe

(***************************************************************************)
(* ModelManager (prediction_service/model_loader.py)                       *)
(***************************************************************************)
\* The files of a run, by path.  A model file is a checkpoint, garbage
\* (torch.load raises), a checkpoint whose state dict does not fit its
\* model_config (load_state_dict raises), or absent; a scaler file is a
\* pickle, garbage (pickle.load raises), or absent.
ModelFileKind(path) ==
    CASE path \in {"mA", "mB"} -> "checkpoint"
      [] path = "m_garbage" -> "garbage"
      [] path = "m_badstate" -> "badstate"
      [] OTHER -> "missing"

ScalerFileKind(path) ==
    CASE path \in {"sA", "sB"} -> "pickle"
      [] path = "s_garbage" -> "garbage"
      [] OTHER -> "missing"

\* os.path.exists(path)
ModelPathExists(path) == ModelFileKind(path) # "missing"

ScalerPathExists(path) == ScalerFileKind(path) # "missing"

\* The (model_path, scaler_path) pairs load_model is called with.
LoadArgs ==
    {<<"mA", "sA">>, <<"mB", "sB">>, <<"m_absent", "sA">>, <<"mA", "s_absent">>,
     <<"m_garbage", "sA">>, <<"m_badstate", "sA">>, <<"mB", "s_garbage">>}

\* What the manager holds.
Held == [model |-> mm_model, scaler |-> mm_scaler, metadata |-> mm_metadata]

\* line 183: self.model is not None and self.scaler is not None
IsLoaded(held) == held.model # None /\ held.scaler # None

\* Mutant: the handler forgets the scaler.
ExceptState_KeepScaler(held) == [held EXCEPT !.model = None, !.metadata = None]

\* lines 175-177: what the except handler of load_model leaves.
ExceptState(held) == [model |-> None, scaler |-> None, metadata |-> None]

\* Mutant: the unpickled scaler is dropped.
LoadedScaler_Dropped(path, id) == None

\* lines 154-155: self.scaler = pickle.load(f)
LoadedScaler(path, id) == [kind |-> "scaler", src |-> path, load |-> id]

\* Mutant: the loaded model is left in the mode it was built in.
AfterEval_Skipped(training) == training

\* line 150: self.model.eval() puts the model in inference mode.
AfterEval(training) == FALSE

\* lines 143-150: the model built from the checkpoint's model_config; `weights`
\* says whether load_state_dict has filled it, `training` its mode.
BuiltModel(path, id, weights, training) ==
    [kind |-> "model", src |-> path, load |-> id, weights |-> weights, training |-> training]

\* lines 159-167: ModelMetadata(...); the load's number stands for load_timestamp.
BuiltMetadata(args, id) ==
    [kind |-> "metadata", model_path |-> args[1], scaler_path |-> args[2], load |-> id]

NoCall == [pc |-> "idle", args |-> << >>, id |-> 0, before |-> None]

NoReturn == [op |-> "none", value |-> FALSE, args |-> << >>, before |-> None, after |-> None]

FreeLock == [owner |-> "none", count |-> 0]

\* Mutant: the lock excludes nobody.
CanAcquire_Always(t) == TRUE

\* Mutant: a plain Lock, which its owner cannot take again.
CanAcquire_NotReentrant(t) == mm_lock.owner = "none"

\* RLock.acquire by thread t is possible when the lock is free or its own.
CanAcquire(t) == mm_lock.owner \in {"none", t}

Acquired(t) == [owner |-> t, count |-> mm_lock.count + 1]

\* RLock.release (the end of a `with self._model_lock` block).
Released ==
    IF mm_lock.count = 1 THEN FreeLock ELSE [mm_lock EXCEPT !.count = mm_lock.count - 1]

\* lines 105-113 and 274: the module-level instance after construction.
MmInit ==
    /\ mm_model = None
    /\ mm_scaler = None
    /\ mm_metadata = None
    /\ mm_lock = FreeLock
    /\ mm_thr = [t \in Threads |-> NoCall]
    /\ mm_ret = [t \in Threads |-> NoReturn]
    /\ mm_loads = 0

MmIdle ==
    /\ mm_model = None
    /\ mm_scaler = None
    /\ mm_metadata = None
    /\ mm_lock = FreeLock
    /\ mm_thr = << >>
    /\ mm_ret = << >>
    /\ mm_loads = 0

\* A thread calls load_model(model_path, scaler_path).
MmCallLoad(t) ==
    /\ mm_thr[t].pc = "idle"
    /\ mm_loads < MaxLoads
    /\ \E args \in LoadArgs :
          mm_thr' = [mm_thr EXCEPT ![t] =
                        [pc |-> "load_acquire", args |-> args, id |-> mm_loads + 1,
                         before |-> None]]
    /\ mm_loads' = mm_loads + 1
    /\ mm_ret' = [mm_ret EXCEPT ![t] = NoReturn]
    /\ UNCHANGED <<mm_model, mm_scaler, mm_metadata, mm_lock, notMmVars>>

\* line 127: with self._model_lock
MmLoadAcquire(t) ==
    /\ mm_thr[t].pc = "load_acquire"
    /\ CanAcquire(t)
    /\ mm_lock' = Acquired(t)
    /\ mm_thr' = [mm_thr EXCEPT ![t].pc = "load_check", ![t].before = Held]
    /\ UNCHANGED <<mm_model, mm_scaler, mm_metadata, mm_ret, mm_loads, notMmVars>>

\* What a returning call leaves in mm_ret.
Returned(t, op, value, after) ==
    [op |-> op, value |-> value, args |-> mm_thr[t].args,
     before |-> mm_thr[t].before, after |-> after]

\* lines 130-136: a missing file returns False at once (the lock is released).
MmLoadCheck(t) ==
    /\ mm_thr[t].pc = "load_check"
    /\ IF ModelPathExists(mm_thr[t].args[1]) /\ ScalerPathExists(mm_thr[t].args[2])
       THEN /\ mm_thr' = [mm_thr EXCEPT ![t].pc = "load_model"]
            /\ UNCHANGED <<mm_lock, mm_ret>>
       ELSE /\ mm_thr' = [mm_thr EXCEPT ![t] = NoCall]
            /\ mm_lock' = Released
            /\ mm_ret' = [mm_ret EXCEPT ![t] = Returned(t, "load", FALSE, Held)]
    /\ UNCHANGED <<mm_model, mm_scaler, mm_metadata, mm_loads, notMmVars>>

\* lines 140-150: torch.load and checkpoint['model_config'] raise on garbage;
\* self.model is then assigned the new model, and load_state_dict raises on a
\* state dict that does not fit; otherwise the model is put in eval mode.
MmLoadModel(t) ==
    /\ mm_thr[t].pc = "load_model"
    /\ LET kind == ModelFileKind(mm_thr[t].args[1])
       IN  CASE kind = "checkpoint" ->
                  /\ mm_model' = BuiltModel(mm_thr[t].args[1], mm_thr[t].id, "loaded",
                                             AfterEval(TRUE))
                  /\ mm_thr' = [mm_thr EXCEPT ![t].pc = "load_scaler"]
             [] kind = "badstate" ->
                  /\ mm_model' = BuiltModel(mm_thr[t].args[1], mm_thr[t].id, "fresh", TRUE)
                  /\ mm_thr' = [mm_thr EXCEPT ![t].pc = "load_except"]
             [] OTHER ->
                  /\ mm_model' = mm_model
                  /\ mm_thr' = [mm_thr EXCEPT ![t].pc = "load_except"]
    /\ UNCHANGED <<mm_scaler, mm_metadata, mm_lock, mm_ret, mm_loads, notMmVars>>

\* lines 153-155: open the scaler file and unpickle it.
MmLoadScaler(t) ==
    /\ mm_thr[t].pc = "load_scaler"
    /\ IF ScalerFileKind(mm_thr[t].args[2]) = "pickle"
       THEN /\ mm_scaler' = LoadedScaler(mm_thr[t].args[2], mm_thr[t].id)
            /\ mm_thr' = [mm_thr EXCEPT ![t].pc = "load_meta"]
       ELSE /\ mm_scaler' = mm_scaler
            /\ mm_thr' = [mm_thr EXCEPT ![t].pc = "load_except"]
    /\ UNCHANGED <<mm_model, mm_metadata, mm_lock, mm_ret, mm_loads, notMmVars>>

\* lines 157-171: the metadata is stored and load_model returns True.
MmLoadMeta(t) ==
    /\ mm_thr[t].pc = "load_meta"
    /\ mm_metadata' = BuiltMetadata(mm_thr[t].args, mm_thr[t].id)
    /\ mm_thr' = [mm_thr EXCEPT ![t] = NoCall]
    /\ mm_lock' = Released
    /\ mm_ret' = [mm_ret EXCEPT ![t] = Returned(t, "load", TRUE,
                          [Held EXCEPT !.metadata = BuiltMetadata(mm_thr[t].args, mm_thr[t].id)])]
    /\ UNCHANGED <<mm_model, mm_scaler, mm_loads, notMmVars>>

\* lines 173-178: the except handler resets the three fields and returns False.
MmLoadExcept(t) ==
    /\ mm_thr[t].pc = "load_except"
    /\ mm_model' = ExceptState(Held).model
    /\ mm_scaler' = ExceptState(Held).scaler
    /\ mm_metadata' = ExceptState(Held).metadata
    /\ mm_thr' = [mm_thr EXCEPT ![t] = NoCall]
    /\ mm_lock' = Released
    /\ mm_ret' = [mm_ret EXCEPT ![t] = Returned(t, "load", FALSE, ExceptState(Held))]
    /\ UNCHANGED <<mm_loads, notMmVars>>

\* A thread calls is_loaded().
MmCallIsLoaded(t) ==
    /\ mm_thr[t].pc = "idle"
    /\ mm_thr' = [mm_thr EXCEPT ![t] = [NoCall EXCEPT !.pc = "isl_acquire"]]
    /\ mm_ret' = [mm_ret EXCEPT ![t] = NoReturn]
    /\ UNCHANGED <<mm_model, mm_scaler, mm_metadata, mm_lock, mm_loads, notMmVars>>

\* line 182: with self._model_lock
MmIsLoadedAcquire(t) ==
    /\ mm_thr[t].pc = "isl_acquire"
    /\ CanAcquire(t)
    /\ mm_lock' = Acquired(t)
    /\ mm_thr' = [mm_thr EXCEPT ![t].pc = "isl_read", ![t].before = Held]
    /\ UNCHANGED <<mm_model, mm_scaler, mm_metadata, mm_ret, mm_loads, notMmVars>>

\* line 183: the answer is computed and the lock released.
MmIsLoadedReturn(t) ==
    /\ mm_thr[t].pc = "isl_read"
    /\ mm_thr' = [mm_thr EXCEPT ![t] = NoCall]
    /\ mm_lock' = Released
    /\ mm_ret' = [mm_ret EXCEPT ![t] = Returned(t, "is_loaded", IsLoaded(Held), Held)]
    /\ UNCHANGED <<mm_model, mm_scaler, mm_metadata, mm_loads, notMmVars>>

\* ---- predict (lines 185-236)

\* Feature values that are not finite numbers, and a finite Python float too
\* large for float32.
NaN == [kind |-> "nan"]

Inf == [kind |-> "inf"]

Huge == [kind |-> "huge"]

\* np.array(features, dtype=np.float32), per element: a float beyond the
\* float32 range becomes inf.
ToFloat32(v) == IF v = Huge THEN Inf ELSE v

\* The feature vectors predict is called with.
FeatureVectors ==
    {<<Rat(1)>>, <<Rat(2)>>, <<NaN>>, <<Inf>>, <<Huge>>, <<Rat(1), Rat(2)>>, <<Rat(2), NaN>>}

\* What torch.load gives for the checkpoint files: mA is a network with one
\* hidden unit on one feature, mB a single Linear layer on two features.
CheckpointAt(path) ==
    IF path = "mA"
    THEN TorchSave(<<<<Rat(2)>>, <<Rat(0 - 1)>>, <<Rat(1)>>, <<Rat(1)>>>>,
                   [input_size |-> 1, hidden_sizes |-> <<1>>, dropout_rate |-> 20])
    ELSE TorchSave(<<<<Rat(1), Rat(2)>>, <<Rat(0)>>>>,
                   [input_size |-> 2, hidden_sizes |-> << >>, dropout_rate |-> 20])

\* What pickle.load gives for the scaler files (StandardScaler mean_ and scale_).
ScalerAt(path) ==
    IF path = "sA" THEN [mean |-> <<1>>, scale |-> <<1>>]
    ELSE [mean |-> <<0, 1>>, scale |-> <<1, 2>>]

\* self.metadata.input_size (line 162: model_config['input_size'])
InputSizeOf(metadata) == CheckpointAt(metadata.model_path).model_config.input_size

\* self.scaler.transform(features_array.reshape(1, -1)): (x - mean_) / scale_
ScalerTransform(scaler, arr) ==
    [k \in 1..Len(arr) |->
        RatMul(RatAdd(arr[k], Rat(0 - ScalerAt(scaler.src).mean[k])),
               RatDiv(1, ScalerAt(scaler.src).scale[k]))]

\* The network self.model stands for: the checkpoint's configuration and
\* state dict, in the mode the manager left it in.
LoadedNet(model) ==
    [config |-> CheckpointAt(model.src).model_config,
     params |-> RestoredParams(CheckpointAt(model.src).model_state_dict,
                               CheckpointAt(model.src).model_state_dict),
     training |-> model.training]

\* The errors predict raises (all ValueError, told apart by their message).
NotReadyError == [kind |-> "ValueError", msg |-> "Model not loaded"]

LengthError == [kind |-> "ValueError", msg |-> "Expected n features"]

PredictionFailed == [kind |-> "ValueError", msg |-> "Prediction failed"]

AttributeError == [kind |-> "AttributeError", msg |-> "NoneType"]

PredictErrors == {NotReadyError, LengthError, PredictionFailed, AttributeError}

\* Mutant: predict skips the readiness check.
NotReady_Never(held) == FALSE

\* line 199: if not self.is_loaded()
NotReady(held) == ~IsLoaded(held)

\* line 208: np.any(np.isnan(features_array)) or np.any(np.isinf(features_array))
HasNanOrInf(features_array) ==
    \E k \in 1..Len(features_array) : features_array[k] \in {NaN, Inf}

\* lines 211-219: the scaled features go through the model under no_grad.
PredictScore(held, features_array, masks) ==
    Forward(LoadedNet(held.model), ScalerTransform(held.scaler, features_array), masks)

\* A thread calls predict(features).
MmCallPredict(t) ==
    /\ mm_thr[t].pc = "idle"
    /\ \E features \in FeatureVectors :
          mm_thr' = [mm_thr EXCEPT ![t] = [NoCall EXCEPT !.pc = "pred_acquire",
                                                         !.args = features]]
    /\ mm_ret' = [mm_ret EXCEPT ![t] = NoReturn]
    /\ UNCHANGED <<mm_model, mm_scaler, mm_metadata, mm_lock, mm_loads, notMmVars>>

\* line 198: with self._model_lock
MmPredAcquire(t) ==
    /\ mm_thr[t].pc = "pred_acquire"
    /\ CanAcquire(t)
    /\ mm_lock' = Acquired(t)
    /\ mm_thr' = [mm_thr EXCEPT ![t].pc = "pred_check", ![t].before = Held]
    /\ UNCHANGED <<mm_model, mm_scaler, mm_metadata, mm_ret, mm_loads, notMmVars>>

\* line 199 calls is_loaded(), which takes the lock again (line 182): the
\* lock is reentrant and the thread already owns it.
MmPredNestedAcquire(t) ==
    /\ mm_thr[t].pc = "pred_check"
    /\ CanAcquire(t)
    /\ mm_lock' = Acquired(t)
    /\ mm_thr' = [mm_thr EXCEPT ![t].pc = "pred_isl"]
    /\ UNCHANGED <<mm_model, mm_scaler, mm_metadata, mm_ret, mm_loads, notMmVars>>

\* lines 183 and 199: is_loaded() answers and releases its hold of the lock.
MmPredNestedReturn(t) ==
    /\ mm_thr[t].pc = "pred_isl"
    /\ mm_lock' = Released
    /\ mm_thr' = [mm_thr EXCEPT ![t].pc =
                     IF NotReady(Held) THEN "pred_not_ready" ELSE "pred_len"]
    /\ UNCHANGED <<mm_model, mm_scaler, mm_metadata, mm_ret, mm_loads, notMmVars>>

\* line 200: raise ValueError("Model not loaded. Call load_model() first.")
MmPredNotReady(t) ==
    /\ mm_thr[t].pc = "pred_not_ready"
    /\ mm_thr' = [mm_thr EXCEPT ![t] = NoCall]
    /\ mm_lock' = Released
    /\ mm_ret' = [mm_ret EXCEPT ![t] = Returned(t, "predict", NotReadyError, Held)]
    /\ UNCHANGED <<mm_model, mm_scaler, mm_metadata, mm_loads, notMmVars>>

\* lines 202-203: the length check against self.metadata.input_size (an
\* AttributeError if there is no metadata).
MmPredLen(t) ==
    /\ mm_thr[t].pc = "pred_len"
    /\ IF mm_metadata = None \/ Len(mm_thr[t].args) # InputSizeOf(mm_metadata)
       THEN /\ mm_thr' = [mm_thr EXCEPT ![t] = NoCall]
            /\ mm_lock' = Released
            /\ mm_ret' = [mm_ret EXCEPT ![t] =
                             Returned(t, "predict",
                                      IF mm_metadata = None THEN AttributeError
                                      ELSE LengthError, Held)]
       ELSE /\ mm_thr' = [mm_thr EXCEPT ![t].pc = "pred_run"]
            /\ UNCHANGED <<mm_lock, mm_ret>>
    /\ UNCHANGED <<mm_model, mm_scaler, mm_metadata, mm_loads, notMmVars>>

\* lines 205-236: validate the values, scale, run the model and return the
\* score; any exception in the block is re-raised as ValueError.
MmPredRun(t) ==
    /\ mm_thr[t].pc = "pred_run"
    /\ LET features_array == [k \in 1..Len(mm_thr[t].args) |-> ToFloat32(mm_thr[t].args[k])]
       IN  \E masks \in Masks(LoadedNet(mm_model).config) :
              mm_ret' = [mm_ret EXCEPT ![t] =
                            Returned(t, "predict",
                                     IF HasNanOrInf(features_array) THEN PredictionFailed
                                     ELSE PredictScore(Held, features_array, masks), Held)]
    /\ mm_thr' = [mm_thr EXCEPT ![t] = NoCall]
    /\ mm_lock' = Released
    /\ UNCHANGED <<mm_model, mm_scaler, mm_metadata, mm_loads, notMmVars>>

\* line 254: {"status": "not_loaded"}
NotLoadedInfo == [status |-> "not_loaded"]

\* lines 256-270: the status with the metadata's fields.
LoadedInfo(held) == [status |-> "loaded", metadata |-> held.metadata]

\* A thread calls get_model_info().
MmCallInfo(t) ==
    /\ mm_thr[t].pc = "idle"
    /\ mm_thr' = [mm_thr EXCEPT ![t] = [NoCall EXCEPT !.pc = "info_acquire"]]
    /\ mm_ret' = [mm_ret EXCEPT ![t] = NoReturn]
    /\ UNCHANGED <<mm_model, mm_scaler, mm_metadata, mm_lock, mm_loads, notMmVars>>

\* line 252: with self._model_lock
MmInfoAcquire(t) ==
    /\ mm_thr[t].pc = "info_acquire"
    /\ CanAcquire(t)
    /\ mm_lock' = Acquired(t)
    /\ mm_thr' = [mm_thr EXCEPT ![t].pc = "info_check", ![t].before = Held]
    /\ UNCHANGED <<mm_model, mm_scaler, mm_metadata, mm_ret, mm_loads, notMmVars>>

\* line 253 calls is_loaded(), which takes the lock again (line 182).
MmInfoNestedAcquire(t) ==
    /\ mm_thr[t].pc = "info_check"
    /\ CanAcquire(t)
    /\ mm_lock' = Acquired(t)
    /\ mm_thr' = [mm_thr EXCEPT ![t].pc = "info_isl"]
    /\ UNCHANGED <<mm_model, mm_scaler, mm_metadata, mm_ret, mm_loads, notMmVars>>

\* lines 183 and 253: is_loaded() answers and releases its hold of the lock.
MmInfoNestedReturn(t) ==
    /\ mm_thr[t].pc = "info_isl"
    /\ mm_lock' = Released
    /\ mm_thr' = [mm_thr EXCEPT ![t].pc =
                     IF NotReady(Held) THEN "info_not_loaded" ELSE "info_loaded"]
    /\ UNCHANGED <<mm_model, mm_scaler, mm_metadata, mm_ret, mm_loads, notMmVars>>

\* lines 254-270: the early return, or the dictionary built from the metadata
\* (an AttributeError if there is none); the with block ends either way.
MmInfoReturn(t) ==
    /\ mm_thr[t].pc \in {"info_not_loaded", "info_loaded"}
    /\ mm_thr' = [mm_thr EXCEPT ![t] = NoCall]
    /\ mm_lock' = Released
    /\ mm_ret' = [mm_ret EXCEPT ![t] =
                     Returned(t, "get_model_info",
                              IF mm_thr[t].pc = "info_not_loaded" THEN NotLoadedInfo
                              ELSE IF mm_metadata = None THEN AttributeError
                              ELSE LoadedInfo(Held), Held)]
    /\ UNCHANGED <<mm_model, mm_scaler, mm_metadata, mm_loads, notMmVars>>

\* The first acquisition of the lock by a call of thread t.
MmAcquires(t) ==
    MmLoadAcquire(t) \/ MmIsLoadedAcquire(t) \/ MmPredAcquire(t) \/ MmInfoAcquire(t)

\* The steps of thread t between that acquisition and the call's end, but
\* for the last step of a predict call that reaches the model.
MmInside(t) ==
    \/ MmLoadCheck(t) \/ MmLoadModel(t) \/ MmLoadScaler(t) \/ MmLoadMeta(t)
    \/ MmLoadExcept(t) \/ MmIsLoadedReturn(t)
    \/ MmPredNestedAcquire(t) \/ MmPredNestedReturn(t) \/ MmPredNotReady(t)
    \/ MmPredLen(t)
    \/ MmInfoNestedAcquire(t) \/ MmInfoNestedReturn(t) \/ MmInfoReturn(t)

\* That last step (the one MmPredRun takes), as far as mm_thr shows it.
MmPredRunEnds(t) ==
    /\ mm_thr[t].pc = "pred_run"
    /\ mm_thr' = [mm_thr EXCEPT ![t] = NoCall]

MmNext ==
    \E t \in Threads :
        \/ MmCallLoad(t)
        \/ MmLoadAcquire(t)
        \/ MmLoadCheck(t)
        \/ MmLoadModel(t)
        \/ MmLoadScaler(t)
        \/ MmLoadMeta(t)
        \/ MmLoadExcept(t)
        \/ MmCallIsLoaded(t)
        \/ MmIsLoadedAcquire(t)
        \/ MmIsLoadedReturn(t)
        \/ MmCallPredict(t)
        \/ MmPredAcquire(t)
        \/ MmPredNestedAcquire(t)
        \/ MmPredNestedReturn(t)
        \/ MmPredNotReady(t)
        \/ MmPredLen(t)
        \/ MmPredRun(t)
        \/ MmCallInfo(t)
        \/ MmInfoAcquire(t)
        \/ MmInfoNestedAcquire(t)
        \/ MmInfoNestedReturn(t)
        \/ MmInfoReturn(t)

(***************************************************************************)
(* ModelManager() construction (model_loader.py, lines 94-113 and 274)     *)
(***************************************************************************)
\* The thread that imports model_loader and so runs line 274.
Importer == "t1"

\* Mutant: __init__ runs its body on every construction.
NeedsInit_Always(initialized) == TRUE

\* line 106: if not self._initialized
NeedsInit(initialized) == ~initialized

\* The class before the module body reaches line 274: no instance, the class
\* lock free.  `created`, `inits` and `locks` count the instances created,
\* the runs of the body of __init__ and the RLocks made (each at most
\* MaxCtorRuns in the model).
CtInit ==
    /\ ct_cls = [instance |-> 0, initialized |-> FALSE, lock |-> "none",
                 created |-> 0, inits |-> 0, locks |-> 0, imported |-> FALSE]
    /\ ct_thr = [t \in Threads |->
                    [pc |-> IF t = Importer THEN "new_check" ELSE "idle", got |-> 0]]

\* The class once the import is over and nobody is constructing.
CtIdle ==
    /\ ct_cls = [instance |-> 1, initialized |-> TRUE, lock |-> "none",
                 created |-> 1, inits |-> 1, locks |-> 1, imported |-> TRUE]
    /\ ct_thr = << >>

\* A thread calls ModelManager() (possible once the module is imported).
CtCall(t) ==
    /\ ct_cls.imported
    /\ ct_thr[t].pc = "idle"
    /\ mm_thr[t].pc = "idle"
    /\ ct_thr' = [ct_thr EXCEPT ![t] = [pc |-> "new_check", got |-> 0]]
    /\ UNCHANGED <<ct_cls, mmVars, notCtVars>>

\* line 98: if cls._instance is None; otherwise __new__ returns the instance
\* (line 103) and __init__ is called on it.
CtNewCheck(t) ==
    /\ ct_thr[t].pc = "new_check"
    /\ ct_thr' = [ct_thr EXCEPT ![t] =
                     IF ct_cls.instance = 0 THEN [pc |-> "new_lock", got |-> 0]
                     ELSE [pc |-> "init_check", got |-> ct_cls.instance]]
    /\ UNCHANGED <<ct_cls, mmVars, notCtVars>>

\* line 99: with cls._lock
CtNewLock(t) ==
    /\ ct_thr[t].pc = "new_lock"
    /\ ct_cls.lock = "none"
    /\ ct_cls' = [ct_cls EXCEPT !.lock = t]
    /\ ct_thr' = [ct_thr EXCEPT ![t].pc = "new_create"]
    /\ UNCHANGED <<mmVars, notCtVars>>

\* lines 100-103: the second check, the creation of the instance with
\* _initialized False, the release of the class lock and the return.
CtNewCreate(t) ==
    /\ ct_thr[t].pc = "new_create"
    /\ IF ct_cls.instance = 0
       THEN /\ ct_cls' = [ct_cls EXCEPT !.instance = ct_cls.created + 1,
                                        !.created = ct_cls.created + 1,
                                        !.initialized = FALSE,
                                        !.lock = "none"]
            /\ ct_thr' = [ct_thr EXCEPT ![t] = [pc |-> "init_check",
                                                got |-> ct_cls.created + 1]]
       ELSE /\ ct_cls' = [ct_cls EXCEPT !.lock = "none"]
            /\ ct_thr' = [ct_thr EXCEPT ![t] = [pc |-> "init_check",
                                                got |-> ct_cls.instance]]
    /\ UNCHANGED <<mmVars, notCtVars>>

\* Line 274 is done: the module is imported and other code can reach the class.
AfterReturn(t) == IF t = Importer THEN [ct_cls EXCEPT !.imported = TRUE] ELSE ct_cls

\* line 106: __init__ returns at once on an initialised instance.
CtInitCheck(t) ==
    /\ ct_thr[t].pc = "init_check"
    /\ IF NeedsInit(ct_cls.initialized)
       THEN /\ ct_thr' = [ct_thr EXCEPT ![t].pc = "init_fields"]
            /\ ct_cls' = ct_cls
       ELSE /\ ct_thr' = [ct_thr EXCEPT ![t].pc = "idle"]
            /\ ct_cls' = AfterReturn(t)
    /\ UNCHANGED <<mmVars, notCtVars>>

\* lines 107-109: self.model = self.scaler = self.metadata = None
CtInitFields(t) ==
    /\ ct_thr[t].pc = "init_fields"
    /\ ct_cls.inits < MaxCtorRuns
    /\ mm_model' = None
    /\ mm_scaler' = None
    /\ mm_metadata' = None
    /\ ct_cls' = [ct_cls EXCEPT !.inits = ct_cls.inits + 1]
    /\ ct_thr' = [ct_thr EXCEPT ![t].pc = "init_lock"]
    /\ UNCHANGED <<mm_lock, mm_thr, mm_ret, mm_loads, notCtVars>>

\* line 111: self._model_lock = threading.RLock(), a new lock nobody holds.
CtInitLock(t) ==
    /\ ct_thr[t].pc = "init_lock"
    /\ mm_lock' = FreeLock
    /\ ct_cls' = [ct_cls EXCEPT !.locks = ct_cls.locks + 1]
    /\ ct_thr' = [ct_thr EXCEPT ![t].pc = "init_flag"]
    /\ UNCHANGED <<mm_model, mm_scaler, mm_metadata, mm_thr, mm_ret, mm_loads, notCtVars>>

\* line 112: self._initialized = True, and __init__ returns.
CtInitFlag(t) ==
    /\ ct_thr[t].pc = "init_flag"
    /\ ct_cls' = [AfterReturn(t) EXCEPT !.initialized = TRUE]
    /\ ct_thr' = [ct_thr EXCEPT ![t].pc = "idle"]
    /\ UNCHANGED <<mmVars, notCtVars>>

\* Code that holds the instance calls load_model on it.
CtUseLoad(t) ==
    /\ ct_cls.imported
    /\ ct_thr[t].pc = "idle"
    /\ MmCallLoad(t)

CtNext ==
    \E t \in Threads :
        \/ CtCall(t)
        \/ CtNewCheck(t)
        \/ CtNewLock(t)
        \/ CtNewCreate(t)
        \/ CtInitCheck(t)
        \/ CtInitFields(t)
        \/ CtInitLock(t)
        \/ CtInitFlag(t)
        \/ CtUseLoad(t)
        \/ MmLoadAcquire(t)
        \/ MmLoadCheck(t)
        \/ MmLoadModel(t)
        \/ MmLoadScaler(t)
        \/ MmLoadMeta(t)
        \/ MmLoadExcept(t)

(***************************************************************************)
(* The prediction service (prediction_service/main.py)                     *)
(***************************************************************************)
\* The feature vectors PredictionRequest lets through (lines 73-89): the
\* fixed length of the schema (7 in the source, 1 here) and finite floats.
RequestVectors ==
    {v \in FeatureVectors : Len(v) = 1 /\ \A k \in 1..Len(v) : v[k] \notin {NaN, Inf}}

\* What the handler raises at lines 352-355.
NotLoaded503 == [kind |-> "HTTPException", status |-> 503]

\* lines 371-382: the except clauses of the handler turn a ValueError into a
\* 400 and any other Exception, an HTTPException included, into a 500.
HandlerStatus(exc) == IF exc.kind = "ValueError" THEN 400 ELSE 500

NoRequest == [pc |-> "idle", features |-> << >>]

SvcInit ==
    /\ svc_state = "created"
    /\ svc_thr = [t \in Threads |-> NoRequest]
    /\ svc_resp = [t \in Threads |-> 0]

SvcIdle ==
    /\ svc_state = "none"
    /\ svc_thr = << >>
    /\ svc_resp = << >>

\* lines 160-161: the lifespan calls load_model(MODEL_PATH, SCALER_PATH).
SvcStartup ==
    /\ svc_state = "created"
    /\ svc_state' = "starting"
    /\ \E args \in LoadArgs :
          mm_thr' = [mm_thr EXCEPT ![Importer] =
                        [pc |-> "load_acquire", args |-> args, id |-> mm_loads + 1,
                         before |-> None]]
    /\ mm_loads' = mm_loads + 1
    /\ mm_ret' = [mm_ret EXCEPT ![Importer] = NoReturn]
    /\ UNCHANGED <<svc_thr, svc_resp, mm_model, mm_scaler, mm_metadata, mm_lock, notSvcVars>>

\* lines 163-172: a failed load raises RuntimeError and the application does
\* not start; otherwise the service runs.
SvcStartupDone ==
    /\ svc_state = "starting"
    /\ mm_thr[Importer].pc = "idle"
    /\ mm_ret[Importer].op = "load"
    /\ svc_state' = IF mm_ret[Importer].value THEN "running" ELSE "failed"
    /\ UNCHANGED <<svc_thr, svc_resp, mmVars, notSvcVars>>

\* The application serving without its lifespan having run, as under
\* TestClient(app) used without a `with` block (tests, line 223).
SvcNoLifespan ==
    /\ svc_state = "created"
    /\ svc_state' = "running"
    /\ UNCHANGED <<svc_thr, svc_resp, mmVars, notSvcVars>>

\* lines 337-351: a POST /predict reaches the handler, which asks is_loaded().
SvcRequest(t) ==
    /\ svc_state = "running"
    /\ svc_thr[t].pc = "idle"
    /\ mm_thr[t].pc = "idle"
    /\ \E features \in RequestVectors :
          svc_thr' = [svc_thr EXCEPT ![t] = [pc |-> "ep_is_loaded", features |-> features]]
    /\ svc_resp' = [svc_resp EXCEPT ![t] = 0]
    /\ mm_thr' = [mm_thr EXCEPT ![t] = [NoCall EXCEPT !.pc = "isl_acquire"]]
    /\ mm_ret' = [mm_ret EXCEPT ![t] = NoReturn]
    /\ UNCHANGED <<svc_state, mm_model, mm_scaler, mm_metadata, mm_lock, mm_loads, notSvcVars>>

\* lines 351-358: not loaded, the handler raises HTTPException(503) inside
\* its own try block; loaded, it calls predict.
SvcAfterIsLoaded(t) ==
    /\ svc_thr[t].pc = "ep_is_loaded"
    /\ mm_thr[t].pc = "idle"
    /\ mm_ret[t].op = "is_loaded"
    /\ IF mm_ret[t].value
       THEN /\ svc_thr' = [svc_thr EXCEPT ![t].pc = "ep_predict"]
            /\ mm_thr' = [mm_thr EXCEPT ![t] = [NoCall EXCEPT !.pc = "pred_acquire",
                                                              !.args = svc_thr[t].features]]
            /\ mm_ret' = [mm_ret EXCEPT ![t] = NoReturn]
            /\ svc_resp' = svc_resp
       ELSE /\ svc_thr' = [svc_thr EXCEPT ![t] = NoRequest]
            /\ svc_resp' = [svc_resp EXCEPT ![t] = HandlerStatus(NotLoaded503)]
            /\ UNCHANGED <<mm_thr, mm_ret>>
    /\ UNCHANGED <<svc_state, mm_model, mm_scaler, mm_metadata, mm_lock, mm_loads, notSvcVars>>

\* lines 358-382: predict has returned or raised; the explanations never
\* raise (lines 296-325), so a score gives a 200.
SvcAfterPredict(t) ==
    /\ svc_thr[t].pc = "ep_predict"
    /\ mm_thr[t].pc = "idle"
    /\ mm_ret[t].op = "predict"
    /\ svc_thr' = [svc_thr EXCEPT ![t] = NoRequest]
    /\ svc_resp' = [svc_resp EXCEPT ![t] =
                       IF mm_ret[t].value \in PredictErrors
                       THEN HandlerStatus(mm_ret[t].value) ELSE 200]
    /\ UNCHANGED <<svc_state, mmVars, notSvcVars>>

\* The steps of the service process.  The handler asks is_loaded() before it
\* calls predict and nothing in the service unloads the manager, so the
\* not-ready branch of predict is not among them.
SvcNext ==
    \/ SvcStartup
    \/ SvcStartupDone
    \/ SvcNoLifespan
    \/ \E t \in Threads :
          \/ SvcRequest(t)
          \/ SvcAfterIsLoaded(t)
          \/ SvcAfterPredict(t)
          \/ MmLoadAcquire(t)
          \/ MmLoadCheck(t)
          \/ MmLoadModel(t)
          \/ MmLoadScaler(t)
          \/ MmLoadMeta(t)
          \/ MmLoadExcept(t)
          \/ MmIsLoadedAcquire(t)
          \/ MmIsLoadedReturn(t)
          \/ MmPredAcquire(t)
          \/ MmPredNestedAcquire(t)
          \/ MmPredNestedReturn(t)
          \/ MmPredLen(t)
          \/ MmPredRun(t)

(***************************************************************************)
(* FundraisingPredictor.__init__ (train_federated.py, lines 65-98; the      *)
(* same code in model_loader.py, lines 47-80)                              *)
(***************************************************************************)
\* The constructor arguments considered (dropout_rate in percent).
ArchConfigs ==
    [input_size : (0 - 1)..MaxWidth,
     hidden_sizes : {<< >>, <<1>>, <<2>>, <<0>>, <<0 - 1>>, <<2, 1>>, <<1, 0>>},
     dropout_rate : {0, 20}]

\* nn.Linear(in_features, out_features) raises on a negative size (the weight
\* tensor cannot be allocated); a size of zero gives an empty weight.
LinearRaises(in_features, out_features) == in_features < 0 \/ out_features < 0

Linear(in_features, out_features) ==
    [module |-> "Linear", in_features |-> in_features, out_features |-> out_features]

ArchInit ==
    /\ ar_pc = "layers"
    /\ ar_config \in ArchConfigs
    /\ ar_prev_size = ar_config.input_size
    /\ ar_layers = << >>

ArchIdle ==
    /\ ar_pc = "idle"
    /\ ar_config = None
    /\ ar_prev_size = 0
    /\ ar_layers = << >>

\* The number of hidden layers built so far (three modules each).
HiddenBuilt == Len(ar_layers) \div 3

\* lines 76-82: one iteration of `for hidden_size in hidden_sizes`.
ArchHiddenLayer ==
    /\ ar_pc = "layers"
    /\ HiddenBuilt < Len(ar_config.hidden_sizes)
    /\ LET hidden_size == ar_config.hidden_sizes[HiddenBuilt + 1]
       IN  IF LinearRaises(ar_prev_size, hidden_size)
           THEN /\ ar_pc' = "raised"
                /\ UNCHANGED <<ar_prev_size, ar_layers>>
           ELSE /\ ar_layers' = ar_layers \o <<Linear(ar_prev_size, hidden_size),
                                               [module |-> "ReLU"],
                                               [module |-> "Dropout",
                                                p |-> ar_config.dropout_rate]>>
                /\ ar_prev_size' = hidden_size
                /\ ar_pc' = "layers"
    /\ UNCHANGED <<ar_config, notArchVars>>

\* lines 84-88: the output layer and the Sigmoid, after the loop (which an
\* empty hidden_sizes never enters).
ArchOutput ==
    /\ ar_pc = "layers"
    /\ HiddenBuilt = Len(ar_config.hidden_sizes)
    /\ IF LinearRaises(ar_prev_size, 1)
       THEN /\ ar_pc' = "raised"
            /\ ar_layers' = ar_layers
       ELSE /\ ar_layers' = ar_layers \o <<Linear(ar_prev_size, 1), [module |-> "Sigmoid"]>>
            /\ ar_pc' = "init_weights"
    /\ UNCHANGED <<ar_config, ar_prev_size, notArchVars>>

\* Whether some Linear layer has an empty weight.
HasEmptyWeight ==
    \E k \in 1..Len(ar_layers) :
        /\ ar_layers[k].module = "Linear"
        /\ ar_layers[k].in_features * ar_layers[k].out_features = 0

\* lines 90-98: _initialize_weights.  xavier_uniform_ on an empty weight
\* either does nothing or divides by a zero fan, depending on the shapes and
\* on the torch build; on any other weight it succeeds.
ArchInitWeights ==
    /\ ar_pc = "init_weights"
    /\ \E outcome \in (IF HasEmptyWeight THEN {"built", "raised"} ELSE {"built"}) :
          ar_pc' = outcome
    /\ UNCHANGED <<ar_config, ar_prev_size, ar_layers, notArchVars>>

ArchNext == ArchHiddenLayer \/ ArchOutput \/ ArchInitWeights

(***************************************************************************)
(* SVSimulator.fit and evaluate on one client (lines 315-393)              *)
(***************************************************************************)
\* One epoch of train_model (lines 237-256) on the client's fixed data: the
\* optimizer steps from the model's parameters and from its own state (Adam's
\* step count and moment estimates, which are functions of the steps it has
\* taken).  The outcome is kept as the term it is computed from: element e of
\* tensor k after a step from `params` with optimizer state `state`.
TrainModel(params, state) ==
    [k \in 1..Len(params) |->
        [e \in 1..Len(params[k]) |->
            [kind |-> "trained", tensor |-> k, element |-> e,
             from |-> params, optimizer |-> state]]]

\* lines 352-354: train_model is handed self.optimizer, created once in
\* __init__ (line 324) over the model's Parameter objects; set_parameters
\* replaces their data only, so the state stays attached.
OptimizerStateIn(state) == state

\* Mutant: evaluation takes an optimizer step on the validation data.
EvaluateModel_Trains(params) == TrainModel(params, << >>)

\* lines 273-304: evaluate_model runs the forward passes under no_grad and
\* assigns nothing to the model's parameters.
EvaluateModel(params) == params

\* The sizes of a client's validation set (len(val_loader.dataset)); the
\* train_test_split of create_data_loaders leaves neither part empty.
ValCounts == {1, 2}

\* lines 315-327: the client as constructed, its optimizer without state.
FitInit ==
    /\ ft_model \in NewModels(DefaultShape)
    /\ ft_optimizer = << >>
    /\ ft_log = << >>
    /\ ft_data \in [train : SampleCounts, val : ValCounts]

FitIdle ==
    /\ ft_model = << >>
    /\ ft_optimizer = << >>
    /\ ft_log = << >>
    /\ ft_data = [train |-> 0, val |-> 0]

\* lines 339-372: fit(parameters, config) with a list of the model's structure.
FtFit ==
    /\ Len(ft_log) < MaxFits
    /\ \E parameters \in ParamsOfShape(DefaultShape) :
          LET adopted == SetParameters(ft_model, parameters)
              state == OptimizerStateIn(ft_optimizer)
              trained == TrainModel(adopted, state)
              evaluated == EvaluateModel(trained)
          IN  /\ ft_model' = evaluated
              /\ ft_optimizer' = Append(state, adopted)
              /\ ft_log' = Append(ft_log,
                    [op |-> "fit", parameters |-> parameters,
                     start |-> adopted, optimizer |-> state,
                     result |-> GetParameters(evaluated),
                     num_examples |-> ft_data.train,
                     after |-> GetParameters(evaluated)])
    /\ UNCHANGED <<ft_data, notFitVars>>

\* lines 374-393: evaluate(parameters, config) sets the parameters and
\* evaluates; the optimizer is not used.
FtEvaluate ==
    /\ Len(ft_log) < MaxFits
    /\ \E parameters \in ParamsOfShape(DefaultShape) :
          LET adopted == SetParameters(ft_model, parameters)
              evaluated == EvaluateModel(adopted)
          IN  /\ ft_model' = evaluated
              /\ ft_log' = Append(ft_log,
                    [op |-> "evaluate", parameters |-> parameters,
                     start |-> adopted, optimizer |-> ft_optimizer,
                     result |-> << >>,
                     num_examples |-> ft_data.val,
                     after |-> GetParameters(evaluated)])
    /\ UNCHANGED <<ft_optimizer, ft_data, notFitVars>>

FitNext == FtFit \/ FtEvaluate

(***************************************************************************)
(* evaluate_model (lines 259-304)                                          *)
(***************************************************************************)
\* The per-sample losses a validation set may have.
SampleLosses == {Rat(1), Rat(2), Rat(3)}

\* len(val_loader): the number of batches of a DataLoader without drop_last.
NumBatches(n, batch_size) == (n + batch_size - 1) \div batch_size

\* The samples of the b-th batch (b from 1), the last one possibly smaller.
BatchOf(losses, batch_size, b) ==
    PySlice(losses, (b - 1) * batch_size, b * batch_size)

\* line 283: criterion(outputs, batch_y) with nn.BCELoss(), whose default
\* reduction is the mean over the batch.
BatchLoss(batch) == RatMul(RatSum(batch), RatDiv(1, Len(batch)))

\* The mean of the per-sample losses.
MeanLoss(losses) == RatMul(RatSum(losses), RatDiv(1, Len(losses)))

EvalInit ==
    /\ ev_losses \in UNION {[1..n -> SampleLosses] : n \in 1..MaxVal}
    /\ ev_batch_size \in 1..MaxBatch
    /\ ev_batches = 0
    /\ ev_total_loss = Rat(0)
    /\ ev_loss = None

EvalIdle ==
    /\ ev_losses = << >>
    /\ ev_batch_size = 0
    /\ ev_batches = 0
    /\ ev_total_loss = Rat(0)
    /\ ev_loss = None

\* lines 279-285: one batch of the loop; total_loss += loss.item().
EvBatch ==
    /\ ev_loss = None
    /\ ev_batches < NumBatches(Len(ev_losses), ev_batch_size)
    /\ ev_total_loss' =
           RatAdd(ev_total_loss, BatchLoss(BatchOf(ev_losses, ev_batch_size, ev_batches + 1)))
    /\ ev_batches' = ev_batches + 1
    /\ UNCHANGED <<ev_losses, ev_batch_size, ev_loss, notEvalVars>>

\* line 297: 'loss': total_loss / len(val_loader), and the return.
EvReturn ==
    /\ ev_loss = None
    /\ ev_batches = NumBatches(Len(ev_losses), ev_batch_size)
    /\ ev_loss' = RatMul(ev_total_loss, RatDiv(1, NumBatches(Len(ev_losses), ev_batch_size)))
    /\ UNCHANGED <<ev_losses, ev_batch_size, ev_batches, ev_total_loss, notEvalVars>>

EvalNext == EvBatch \/ EvReturn

(***************************************************************************)
(* Specifications                                                          *)
(***************************************************************************)
InitSplit == SplitInit /\ ClientIdle /\ FedIdle /\ StoreIdle /\ MmIdle /\ CtIdle /\ SvcIdle /\ ArchIdle /\ FitIdle /\ EvalIdle

NextSplit == SplitNext

SpecSplit == InitSplit /\ [][NextSplit]_vars

InitClient == ClientInit /\ SplitIdle /\ FedIdle /\ StoreIdle /\ MmIdle /\ CtIdle /\ SvcIdle /\ ArchIdle /\ FitIdle /\ EvalIdle

NextClient == ClientNext

SpecClient == InitClient /\ [][NextClient]_vars

InitFed == FedInit /\ SplitIdle /\ ClientIdle /\ StoreIdle /\ MmIdle /\ CtIdle /\ SvcIdle /\ ArchIdle /\ FitIdle /\ EvalIdle

NextFed == FedNext

SpecFed == InitFed /\ [][NextFed]_vars

\* The step out of a round's fit phase (the one FedAggregate takes).
FedLeavesFit ==
    /\ fed_pc = "fit"
    /\ fed_k = Len(fed_clients)
    /\ fed_pc' \in {"round_top", "raised"}

\* The run is one thread that keeps going until it returns or raises.
SpecFedLive ==
    /\ SpecFed
    /\ WF_vars(FedLoad \/ FedSplit \/ FedCreateClients \/ FedRoundStart \/ FedFit \/ FedSave)
    /\ WF_fed_pc(FedLeavesFit)

InitFedAny == FedInitAny /\ SplitIdle /\ ClientIdle /\ StoreIdle /\ MmIdle /\ CtIdle /\ SvcIdle /\ ArchIdle /\ FitIdle /\ EvalIdle

SpecFedAny == InitFedAny /\ [][NextFed]_vars

\* Runs with well-built or misconfigured clients in which steps may fail.
InitFedFaulty == InitFed \/ InitFedAny

NextFedFaulty == FedFaultyNext

SpecFedFaulty == InitFedFaulty /\ [][NextFedFaulty]_vars

InitStore == StoreInit /\ SplitIdle /\ ClientIdle /\ FedIdle /\ MmIdle /\ CtIdle /\ SvcIdle /\ ArchIdle /\ FitIdle /\ EvalIdle

NextStore == StoreNext

SpecStore == InitStore /\ [][NextStore]_vars

InitMm == MmInit /\ SplitIdle /\ ClientIdle /\ FedIdle /\ StoreIdle /\ CtIdle /\ SvcIdle /\ ArchIdle /\ FitIdle /\ EvalIdle

NextMm == MmNext

SpecMm == InitMm /\ [][NextMm]_vars

\* Every thread keeps running, and a thread that finds the lock free again and
\* again eventually gets it.
SpecMmLive ==
    /\ SpecMm
    /\ \A t \in Threads :
          /\ WF_vars(MmInside(t))
          /\ WF_mm_thr(MmPredRunEnds(t))
          /\ SF_vars(MmAcquires(t))

InitCt == CtInit /\ MmInit /\ SplitIdle /\ ClientIdle /\ FedIdle /\ StoreIdle /\ SvcIdle /\ ArchIdle /\ FitIdle /\ EvalIdle

NextCt == CtNext

SpecCt == InitCt /\ [][NextCt]_vars

\* The service process: the manager as the import left it.
InitSvc == SvcInit /\ MmInit /\ CtIdle /\ SplitIdle /\ ClientIdle /\ FedIdle /\ StoreIdle /\ ArchIdle /\ FitIdle /\ EvalIdle

NextSvc == SvcNext

SpecSvc == InitSvc /\ [][NextSvc]_vars

InitArch ==
    ArchInit /\ SplitIdle /\ ClientIdle /\ FedIdle /\ StoreIdle /\ MmIdle /\ CtIdle /\ SvcIdle /\ FitIdle /\ EvalIdle

NextArch == ArchNext

SpecArch == InitArch /\ [][NextArch]_vars

InitFit ==
    /\ FitInit /\ SplitIdle /\ ClientIdle /\ FedIdle /\ StoreIdle
    /\ MmIdle /\ CtIdle /\ SvcIdle /\ ArchIdle /\ EvalIdle

NextFit == FitNext

SpecFit == InitFit /\ [][NextFit]_vars

InitEval ==
    /\ EvalInit /\ SplitIdle /\ ClientIdle /\ FedIdle /\ StoreIdle
    /\ MmIdle /\ CtIdle /\ SvcIdle /\ ArchIdle /\ FitIdle

NextEval == EvalNext

SpecEval == InitEval /\ [][NextEval]_vars

(***************************************************************************)
(* Claims                                                                  *)
(***************************************************************************)

\* sum_i n_i * params_i[p][e] over the updates of the round just aggregated.
RECURSIVE SampleWeightedTotal(_, _, _)
SampleWeightedTotal(p, e, c) ==
    IF c = 0 THEN Rat(0)
    ELSE RatAdd(SampleWeightedTotal(p, e, c - 1),
                RatMul(Rat(fed_client_sizes[c]), fed_client_updates[c][p][e]))

RoundJustAggregated == fed_pc = "round_top" /\ fed_round_num > 0

\* C1: after every round, for every parameter position the new global value
\* times the round's total sample count equals the sum over the clients of
\* sample count times the client's value at that position.
C1_FedAvg ==
    RoundJustAggregated =>
        \A p \in 1..Len(fed_global_params) : \A e \in 1..Len(fed_global_params[p]) :
            RatMul(fed_global_params[p][e], Rat(SumSeq(fed_client_sizes)))
                = SampleWeightedTotal(p, e, Len(fed_client_updates))

\* Two clients with n = 3 and n = 7 (the ratio of 30 and 70) returning 1 and 2:
\* the aggregate is 17/10.
C1_Witness ==
    /\ RoundJustAggregated
    /\ fed_client_sizes = <<3, 7>>
    /\ fed_client_updates[1][1] = <<Rat(1)>>
    /\ fed_client_updates[2][1] = <<Rat(2)>>
    /\ fed_global_params[1] = <<[n |-> 17, d |-> 10]>>

\* Some client of the round returned a list that differs from global_params in
\* number of tensors or in the shape of a tensor.
SomeUpdateMismatched ==
    \E c \in 1..Len(fed_client_updates) :
        ~SameStructure(fed_client_updates[c], fed_global_params)

LoadedRightAfterSave == st_fresh /\ st_loaded # None

\* C7 as stated: such a load returns the saved model's architecture
\* configuration and parameter values, and every probe input gives the same
\* output on the returned model as on the saved one.
C7_RoundTripAnyMode ==
    LoadedRightAfterSave =>
        /\ st_loaded.model.config = st_model.config
        /\ st_loaded.model.params = st_model.params
        /\ st_probe # None => st_probe.loaded = st_probe.saved

\* C7 as amended: the configuration and the parameter values are the saved
\* ones, and the outputs on a probe input agree whenever neither forward pass
\* draws a dropout mask (both models in inference mode, or no active dropout).
C7_RoundTrip ==
    LoadedRightAfterSave =>
        /\ st_loaded.model.config = st_model.config
        /\ st_loaded.model.params = st_model.params
        /\ (st_probe # None /\ Deterministic(st_model) /\ Deterministic(st_loaded.model))
              => st_probe.loaded = st_probe.saved

C7_Witness ==
    /\ LoadedRightAfterSave
    /\ st_files.model # OldModelFile
    /\ st_model.config.hidden_sizes = <<1>>
    /\ st_model.config.dropout_rate = 20
    /\ ~st_model.training
    /\ ~st_loaded.model.training
    /\ st_probe # None
    /\ st_probe.loaded = st_probe.saved

ValidSplitCall == 1 <= sp_num /\ sp_num <= sp_len

ShardSizes == [k \in 1..Len(sp_client_data) |-> Len(sp_client_data[k])]

\* C2: for 1 <= num_clients <= L the call returns exactly num_clients shards,
\* their sizes sum to L, their index sets are pairwise disjoint and every
\* sample index 0..L-1 lies in exactly one shard (at exactly one position).
C2_PartitionExact ==
    (sp_pc = "done" /\ ValidSplitCall) =>
        /\ Len(sp_client_data) = sp_num
        /\ SumSeq(ShardSizes) = sp_len
        /\ \A a, b \in 1..Len(sp_client_data) :
              a # b => Range(sp_client_data[a]) \cap Range(sp_client_data[b]) = {}
        /\ \A x \in 0..(sp_len - 1) :
              Cardinality({<<k, j>> \in (1..Len(sp_client_data)) \X (1..sp_len) :
                              j <= Len(sp_client_data[k]) /\ sp_client_data[k][j] = x}) = 1

C2_Witness ==
    /\ sp_pc = "done"
    /\ sp_num = 3
    /\ sp_len = 4
    /\ Len(sp_client_data) = 3

\* C3: for valid num_clients the first num_clients-1 shards hold L // n samples,
\* the last holds L // n + L mod n, and no shard is empty.
C3_ShardSizes ==
    (sp_pc = "done" /\ ValidSplitCall) =>
        /\ Len(sp_client_data) = sp_num
        /\ \A k \in 1..(sp_num - 1) : Len(sp_client_data[k]) = sp_len \div sp_num
        /\ Len(sp_client_data[sp_num]) = (sp_len \div sp_num) + (sp_len % sp_num)
        /\ \A k \in 1..sp_num : Len(sp_client_data[k]) > 0

C3_Witness ==
    /\ sp_pc = "done"
    /\ sp_num = 3
    /\ sp_len = 4
    /\ Len(sp_client_data) = 3
    /\ Len(sp_client_data[3]) = 2

\* C5: set_parameters fails, leaving the model's parameters unchanged, whenever
\* the list differs from the model's parameters in number of tensors or in the
\* shape of a tensor.
C5_SetRejectsMismatch ==
    (cl_op = "set" /\ ~SameStructure(cl_arg, cl_before)) =>
        (cl_raised /\ cl_model = cl_before)

LoadReturned(t) == mm_ret[t].op = "load"

\* The call was given a path with no file behind it.
FileWasMissing(t) ==
    ~ModelPathExists(mm_ret[t].args[1]) \/ ~ScalerPathExists(mm_ret[t].args[2])

NothingHeld == [model |-> None, scaler |-> None, metadata |-> None]

C9_MissingPathLeavesUnloaded ==
    \A t \in Threads :
        (LoadReturned(t) /\ FileWasMissing(t)) =>
            ~mm_ret[t].value /\ ~IsLoaded(mm_ret[t].after)

\* C10: the runtime is unloaded until a load_model call; is_loaded() answers
\* True exactly when a model and a scaler are both held; the runtime goes from
\* unloaded to ready only in a load_model call that then returns True; and
\* when load_model has returned True the runtime is ready.
ReadyLifecycleState ==
    /\ mm_loads = 0 => ~IsLoaded(Held)
    /\ \A t \in Threads :
          /\ mm_ret[t].op = "is_loaded" =>
                (mm_ret[t].value <=>
                    (mm_ret[t].after.model # None /\ mm_ret[t].after.scaler # None))
          /\ (LoadReturned(t) /\ mm_ret[t].value) =>
                (mm_ret[t].after.model # None /\ mm_ret[t].after.scaler # None)
          /\ (LoadReturned(t) /\ ~IsLoaded(mm_ret[t].before) /\ IsLoaded(mm_ret[t].after)) =>
                mm_ret[t].value
          /\ mm_thr[t].pc = "load_meta" => IsLoaded(Held)

BecomesReady == ~IsLoaded(Held) /\ IsLoaded(Held)'

C10_ReadyLifecycle ==
    /\ []ReadyLifecycleState
    /\ [][BecomesReady =>
            \E t \in Threads : mm_thr[t].pc = "load_scaler" /\ mm_thr'[t].pc = "load_meta"]_vars

C10_Witness ==
    \E t, u \in Threads :
        /\ LoadReturned(t) /\ mm_ret[t].value
        /\ ~IsLoaded(mm_ret[t].before)
        /\ mm_ret[u].op = "is_loaded" /\ mm_ret[u].value
        /\ mm_ret[u].after = mm_ret[t].after

\* ---- ModelManager.predict

\* A predict call of thread t has returned or raised.
PredictReturned(t) == mm_ret[t].op = "predict"

\* C11: a predict call made while no model is loaded raises the not-ready
\* error and gives no score; and a load_model that fails on a runtime that
\* was not loaded leaves is_loaded() False.
C11_NotReady ==
    \A t \in Threads :
        /\ (PredictReturned(t) /\ ~IsLoaded(mm_ret[t].before)) =>
              mm_ret[t].value = NotReadyError
        /\ (LoadReturned(t) /\ ~mm_ret[t].value /\ ~IsLoaded(mm_ret[t].before)) =>
              ~IsLoaded(mm_ret[t].after)

C11_Witness ==
    \E t, u \in Threads :
        /\ PredictReturned(t) /\ mm_ret[t].value = NotReadyError
        /\ LoadReturned(u) /\ ~mm_ret[u].value /\ FileWasMissing(u)
        /\ ~IsLoaded(mm_ret[u].after)
        /\ ~IsLoaded(Held)

\* The vector has the wrong length for the loaded model, or holds a NaN or an
\* infinite value.
InvalidVector(t) ==
    \/ Len(mm_ret[t].args) # InputSizeOf(mm_ret[t].before.metadata)
    \/ \E k \in 1..Len(mm_ret[t].args) : mm_ret[t].args[k] \in {NaN, Inf}

\* The vector has the loaded model's length and finite float32 values.
ValidVector(t) ==
    /\ Len(mm_ret[t].args) = InputSizeOf(mm_ret[t].before.metadata)
    /\ \A k \in 1..Len(mm_ret[t].args) : mm_ret[t].args[k] \notin {NaN, Inf, Huge}

\* C12: a predict call on a ready runtime leaves model, scaler and metadata
\* as they were (so is_loaded() stays True); a vector of the wrong length or
\* with NaN or an infinite value is rejected with a ValueError; and a valid
\* vector gets the one score the loaded model and scaler determine, whatever
\* calls came before.
C12_PredictFrame ==
    \A t \in Threads :
        (PredictReturned(t) /\ IsLoaded(mm_ret[t].before)) =>
            /\ mm_ret[t].after = mm_ret[t].before
            /\ InvalidVector(t) => mm_ret[t].value \in {LengthError, PredictionFailed}
            /\ ValidVector(t) =>
                  mm_ret[t].value =
                      PredictScore(mm_ret[t].before, mm_ret[t].args,
                                   [l \in 1..1 |-> [j \in 1..1 |-> TRUE]])

C12_Witness ==
    \E t, u \in Threads :
        /\ t # u
        /\ PredictReturned(t) /\ IsLoaded(mm_ret[t].before)
        /\ mm_ret[t].value = PredictionFailed
        /\ PredictReturned(u) /\ mm_ret[u].before = mm_ret[t].after
        /\ mm_ret[u].before.model.src = "mA"
        /\ mm_ret[u].args = <<Rat(2)>>
        /\ mm_ret[u].value = Rat(2)

\* ---- The lock of the ModelManager

\* Thread t is inside the `with self._model_lock` block of load_model.
InLoadSection(t) ==
    mm_thr[t].pc \in {"load_check", "load_model", "load_scaler", "load_meta", "load_except"}

\* Thread t is inside the `with self._model_lock` block of predict.
InPredictSection(t) ==
    mm_thr[t].pc \in {"pred_check", "pred_isl", "pred_not_ready", "pred_len", "pred_run"}

\* C13: at most one thread is inside load_model's critical section, and no
\* thread is inside predict's while another is inside load_model's.
C13_LoadExclusive ==
    \A t, u \in Threads :
        (t # u /\ InLoadSection(t)) => (~InLoadSection(u) /\ ~InPredictSection(u))

C13_Witness ==
    \E t, u \in Threads :
        /\ t # u
        /\ InLoadSection(t)
        /\ mm_thr[u].pc \in {"load_acquire", "pred_acquire"}
        /\ ~CanAcquire(u)

C15_SingleInstance ==
    /\ ct_cls.created <= 1
    /\ ct_cls.inits <= 1
    /\ ct_cls.locks <= 1
    /\ \A t \in Threads :
          /\ ct_thr[t].got # 0 => ct_thr[t].got = ct_cls.instance
          /\ ct_cls.imported => ct_thr[t].pc \notin {"init_fields", "init_lock", "init_flag"}

C15_Witness ==
    \E t, u \in Threads :
        /\ t # u
        /\ ct_thr[t].pc = "init_check" /\ ct_thr[t].got = 1
        /\ ct_thr[u].pc = "idle" /\ ct_thr[u].got = 1
        /\ IsLoaded(Held)
        /\ ct_cls.inits = 1

\* ---- The prediction service

\* C16: a POST /predict with a vector the schema accepts, handled while
\* is_loaded() answers False, is answered with status 503.
C16_NotLoadedIs503 ==
    \A t \in Threads :
        (svc_resp[t] # 0 /\ mm_ret[t].op = "is_loaded" /\ ~mm_ret[t].value) =>
            svc_resp[t] = 503

\* C17: when load_model fails at startup (files missing or corrupt) it
\* returns False and the service still starts, not ready; and a load_model
\* call with valid files returns True and leaves the runtime ready.
C17_DegradedStart ==
    /\ (svc_state # "created" /\ svc_state # "starting" /\ ~IsLoaded(Held)) =>
          svc_state = "running"
    /\ \A t \in Threads :
          (LoadReturned(t) /\ ModelFileKind(mm_ret[t].args[1]) = "checkpoint"
              /\ ScalerFileKind(mm_ret[t].args[2]) = "pickle") =>
                (mm_ret[t].value /\ IsLoaded(mm_ret[t].after))

\* ---- create_federated_splits: configuration errors

\* C18: with num_clients < 1 or num_clients > len(X) the call fails and
\* returns nothing; and whatever it returns holds no empty shard.
C18_RejectsBadNumClients ==
    /\ (sp_pc # "idle" /\ (sp_num < 1 \/ sp_num > sp_len)) => sp_pc # "done"
    /\ sp_pc = "done" => \A k \in 1..Len(sp_client_data) : sp_client_data[k] # << >>

\* ---- FundraisingPredictor.__init__: configuration errors

\* C19: constructing with input_size <= 0 or with an empty hidden_sizes fails;
\* no model is produced for such a configuration.
C19_RejectsBadArchitecture ==
    (ar_pc # "idle" /\ (ar_config.input_size <= 0 \/ ar_config.hidden_sizes = << >>)) =>
        ar_pc # "built"

\* ---- SVSimulator.fit: statelessness

\* C20: on one client, two fit calls with the same global parameters return
\* the same updated parameters, whatever fit and evaluate calls came before
\* each of them.
C20_FitStateless ==
    \A i, j \in 1..Len(ft_log) :
        (ft_log[i].op = "fit" /\ ft_log[j].op = "fit"
            /\ ft_log[i].parameters = ft_log[j].parameters) =>
                ft_log[i].result = ft_log[j].result

\* ---- SVSimulator.evaluate: no training step

\* C21: each evaluate call leaves the client's parameters equal to the list it
\* was given and returns the size of the validation set, and a fit that
\* follows it starts from the list fit is given and from the optimizer state
\* that was there before the evaluate call.
C21_EvaluateFrame ==
    \A i \in 1..Len(ft_log) :
        ft_log[i].op = "evaluate" =>
            /\ ft_log[i].after = ft_log[i].parameters
            /\ ft_log[i].num_examples = ft_data.val
            /\ (i = Len(ft_log) => GetParameters(ft_model) = ft_log[i].parameters)
            /\ (i < Len(ft_log) /\ ft_log[i + 1].op = "fit") =>
                    /\ GetParameters(ft_log[i + 1].start) = ft_log[i + 1].parameters
                    /\ ft_log[i + 1].optimizer = ft_log[i].optimizer

\* A fit, then an evaluate with other parameters, then a fit with a third list.
C21_Witness ==
    /\ Len(ft_log) = 3
    /\ ft_log[1].op = "fit" /\ ft_log[2].op = "evaluate" /\ ft_log[3].op = "fit"
    /\ ft_log[2].parameters # ft_log[3].parameters
    /\ ft_log[2].parameters # ft_log[1].parameters
    /\ ft_data.val # ft_data.train

\* ---- run_federated_learning: rounds are barriers

\* C22: every list handed to a fit call of a round is global_params as it was
\* at the top of that round, whatever the clients before it returned;
\* global_params changes only in the step that follows the last client's
\* return; and a fit call is made only in a round whose predecessor's
\* aggregate is installed (the round counter says how many are).
C22_RoundBarrier ==
    /\ [](\A c \in 1..Len(fed_handed) : fed_handed[c] = fed_round_params)
    /\ [][fed_global_params' # fed_global_params =>
             /\ fed_k = Len(fed_clients)
             /\ Len(fed_client_updates) = Len(fed_clients)
             /\ fed_round_num' = fed_round_num + 1]_vars
    /\ [][Len(fed_handed') > Len(fed_handed) =>
             /\ fed_round_params = fed_global_params
             /\ \A c \in 1..Len(fed_clients) :
                   fed_fit_calls[c] = fed_round_num + (IF c <= fed_k THEN 1 ELSE 0)]_vars

\* Two clients have run their second round, and the first one's update
\* differs from the aggregate the second was handed.
C22_Witness ==
    /\ Len(fed_clients) = 2
    /\ fed_round_num = 1
    /\ fed_k = 2
    /\ fed_client_updates[1] # fed_round_params
    /\ fed_handed[2] = fed_round_params

\* ---- run_federated_learning: termination, and what is saved

\* The fit calls made on each client so far.
EveryClientFitted(times) == \A c \in 1..Len(fed_clients) : fed_fit_calls[c] = times

\* C23: a run in which no step fails ends; each round that completes has
\* called fit once more on every client; and at the end `rounds` rounds have
\* completed, every client has been fitted `rounds` times, save_model was
\* handed the global model and the fitted scaler, and both files hold them.
C23_ExactRounds ==
    /\ <>(fed_pc = "done")
    /\ [][fed_round_num' # fed_round_num =>
             fed_round_num' = fed_round_num + 1 /\ EveryClientFitted(fed_round_num')]_vars
    /\ [](fed_pc = "done" =>
             /\ fed_round_num = fed_rounds
             /\ EveryClientFitted(fed_rounds)
             /\ fed_saved = [model |-> fed_global_model, scaler |-> FittedScaler]
             /\ GetParameters(fed_global_model) = fed_global_params
             /\ fed_files = [model |-> TorchSave(fed_global_params, DefaultConfig),
                             scaler |-> PickleDump(FittedScaler)])

\* Two clients, two rounds, done, and the model saved is not the initial one's
\* aggregate input (the second round changed the global parameters).
C23_Witness ==
    /\ fed_pc = "done"
    /\ fed_rounds = 2
    /\ Len(fed_clients) = 2
    /\ fed_fit_calls = <<2, 2>>
    /\ fed_files.model # OldModelFile
    /\ fed_global_params # fed_round_params

\* ---- run_federated_learning: no save after a failure

FailedBeforeSave == fed_raised \in {"load", "split", "clients", "fit", "aggregate"}

\* C24: once data loading, partitioning, client construction, a fit or an
\* aggregation has raised, save_model has not been called and the files at
\* the model and scaler paths are the ones the run found; and save_model is
\* called only when every round has completed with every client fitted.
C24_SaveOnlyAfterSuccess ==
    /\ FailedBeforeSave =>
          /\ fed_saved = None
          /\ fed_files = [model |-> OldModelFile, scaler |-> OldScalerFile]
          /\ fed_pc = "raised"
    /\ fed_saved # None =>
          /\ fed_round_num = fed_rounds
          /\ \A c \in 1..Len(fed_clients) : fed_fit_calls[c] = fed_rounds

\* A fit of the second round raised, after the first round's aggregate was
\* installed.
C24_Witness ==
    /\ fed_raised = "fit"
    /\ fed_round_num = 1
    /\ fed_rounds = 2
    /\ fed_k = 1
    /\ GetParameters(fed_global_model) # OldModelFile.model_state_dict

\* ---- save_model: the two files as a pair

\* C25: every save_model call either leaves both files as they were or leaves
\* the model file and the scaler file it wrote itself, and after it the
\* parent directories of both paths exist.
C25_WrittenAsPair ==
    [][st_op' = "save" =>
          /\ \/ st_files' = st_files
             \/ st_files' = [model |-> TorchSave(StateDict(st_model), st_model.config),
                             scaler |-> PickleDump(st_scaler)]
          /\ st_model_dir = "" \/ st_model_dir \in st_dirs'
          /\ st_scaler_dir = "" \/ st_scaler_dir \in st_dirs']_vars

\* ---- ModelManager: model, scaler and metadata as one unit

\* What is held is nothing at all, or a model with its weights loaded, a
\* scaler and metadata that one load_model call produced.
HeldAsUnit(held) ==
    \/ held = NothingHeld
    \/ /\ held.model # None /\ held.scaler # None /\ held.metadata # None
       /\ held.model.weights = "loaded"
       /\ held.scaler.load = held.model.load
       /\ held.metadata.load = held.model.load
       /\ held.metadata.model_path = held.model.src
       /\ held.metadata.scaler_path = held.scaler.src

\* C26: whenever no thread holds the model lock, model, scaler and metadata
\* are all None or all from the same load_model call; and every predict that
\* passed the loaded check ran on such a unit.
C26_SwappedAsUnit ==
    /\ mm_lock.owner = "none" => HeldAsUnit(Held)
    /\ \A t \in Threads :
          (PredictReturned(t) /\ mm_ret[t].value # NotReadyError) =>
              (IsLoaded(mm_ret[t].before) /\ HeldAsUnit(mm_ret[t].before))

\* A second load has replaced the first one's artifact with another, and a
\* predict has run on the second.
C26_Witness ==
    /\ mm_lock.owner = "none"
    /\ IsLoaded(Held)
    /\ mm_model.load = 2 /\ mm_model.src = "mB"
    /\ \E t, u \in Threads :
          /\ PredictReturned(t) /\ mm_ret[t].before = Held
          /\ mm_ret[t].value \notin PredictErrors
          /\ LoadReturned(u) /\ IsLoaded(mm_ret[u].before)
          /\ mm_ret[u].before.model.src = "mA"

\* ---- ModelManager: inference mode

\* C27: whenever a model and scaler are held and the lock is free, the model
\* is in inference mode; every predict that passed the loaded check ran on a
\* model in inference mode; and two predict calls with the same features on
\* the same loaded unit (no load in between) returned the same value.
C27_InferenceMode ==
    /\ (mm_lock.owner = "none" /\ IsLoaded(Held)) => ~mm_model.training
    /\ \A t \in Threads :
          (PredictReturned(t) /\ IsLoaded(mm_ret[t].before)) =>
              ~mm_ret[t].before.model.training
    /\ \A t, u \in Threads :
          (/\ PredictReturned(t) /\ PredictReturned(u)
           /\ IsLoaded(mm_ret[t].before)
           /\ mm_ret[t].before = mm_ret[u].before
           /\ mm_ret[t].args = mm_ret[u].args) =>
              mm_ret[t].value = mm_ret[u].value

\* Two threads have predicted the same vector on the artifact with a dropout
\* layer, after a load that replaced another artifact.
C27_Witness ==
    \E t, u \in Threads :
        /\ t # u
        /\ PredictReturned(t) /\ PredictReturned(u)
        /\ mm_ret[t].before = mm_ret[u].before
        /\ mm_ret[t].args = mm_ret[u].args
        /\ mm_ret[t].value \notin PredictErrors
        /\ IsLoaded(mm_ret[t].before)
        /\ mm_ret[t].before.model.src = "mA"
        /\ mm_ret[t].before.model.load = 2

\* ---- evaluate_model: the loss

\* C28: the loss evaluate_model returns is the mean of the per-sample losses
\* of the validation set, whatever the batch size.
C28_LossIsSampleMean == ev_loss # None => ev_loss = MeanLoss(ev_losses)

\* ---- create_federated_splits: reproducibility

\* C29: a call that repeats an earlier call with the same features, labels and
\* num_clients returns the same shards, sample for sample.
C29_SameShardsAgain ==
    (sp_pc = "done" /\ sp_repeat) => sp_client_data = sp_prev

\* ---- ModelManager: the lock

HoldsOnce == {"load_check", "load_model", "load_scaler", "load_meta", "load_except",
              "isl_read", "pred_check", "pred_not_ready", "pred_len", "pred_run",
              "info_check", "info_not_loaded", "info_loaded"}

HoldsTwice == {"pred_isl", "info_isl"}

WaitsForLock == {"load_acquire", "isl_acquire", "pred_acquire", "info_acquire"}

\* What the lock must be, given where the threads are.
LockOwed ==
    IF \E t \in Threads : mm_thr[t].pc \in HoldsOnce \cup HoldsTwice
    THEN LET t == CHOOSE u \in Threads : mm_thr[u].pc \in HoldsOnce \cup HoldsTwice
         IN  [owner |-> t, count |-> IF mm_thr[t].pc \in HoldsTwice THEN 2 ELSE 1]
    ELSE FreeLock

====
